---- MODULE Spec2Model ----
(***************************************************************************)
(* A model of the Google News URL decoder (package gnewsdecoder):          *)
(*   - the binary token decoder inlined in DecoderV1 / DecoderV3 /         *)
(*     DecoderV4 (base64 with "==" appended, prefix/suffix stripping,      *)
(*     length-byte extraction);                                            *)
(*   - the batch pipeline DecoderV4 with its single batched RPC call;      *)
(*   - the fan-out of ConcurrentDecoder.DecodeURLs and                     *)
(*     DecodeURLsWithContext (goroutines, semaphore channel, result        *)
(*     channel, WaitGroup).                                                *)
(* Strings are sequences of byte values (ASCII codes); messages of         *)
(* DecodeResult are TLA+ strings.                                          *)
(***************************************************************************)
EXTENDS Integers, Sequences, FiniteSets, TLC

\* ------------------------------------------------------------------ bounds

\* Longest byte sequence drawn as a token's content in SpecTok.
MaxLen == 4

\* Longest input slice handed to DecoderV4 in SpecV4.
MaxBatch == 3

\* Longest input slice handed to DecodeURLs / DecodeURLsWithContext in Spec.
MaxURLs == 2

\* ------------------------------------------------------- string constants

NewsHost == <<110, 101, 119, 115, 46, 103, 111, 111, 103, 108, 101, 46, 99, 111, 109>>   \* news.google.com
OtherHost == <<101, 120, 97, 109, 112, 108, 101, 46, 99, 111, 109>>   \* example.com
Articles == <<97, 114, 116, 105, 99, 108, 101, 115>>   \* articles
Read == <<114, 101, 97, 100>>   \* read
Scheme == <<104, 116, 116, 112, 115, 58, 47, 47>>   \* https://
AUPrefix == <<65, 85, 95, 121, 113, 76>>   \* AU_yqL
Header == <<91, 92, 34, 103, 97, 114, 116, 117, 114, 108, 114, 101, 115, 92, 34, 44, 92, 34>>   \* [\"garturlres\",\"
Footer == <<92, 34, 44>>   \* \",
Prefix == <<8, 19, 34>>    \* 0x08 0x13 0x22
Suffix == <<210, 1, 0>>    \* 0xD2 0x01 0x00

\* ------------------------------------------------------- string helpers

\* strings.HasPrefix
HasPrefix(s, p) == Len(s) >= Len(p) /\ SubSeq(s, 1, Len(p)) = p

\* strings.HasSuffix
HasSuffix(s, p) == Len(s) >= Len(p) /\ SubSeq(s, Len(s) - Len(p) + 1, Len(s)) = p

\* strings.Index: the 1-based position of the first occurrence of pat in s,
\* 0 when there is none.
RECURSIVE IndexFrom(_, _, _)
IndexFrom(s, pat, k) ==
    IF k + Len(pat) - 1 > Len(s) THEN 0
    ELSE IF SubSeq(s, k, k + Len(pat) - 1) = pat THEN k
    ELSE IndexFrom(s, pat, k + 1)

Index(s, pat) == IndexFrom(s, pat, 1)

\* strings.Contains
Contains(s, pat) == Index(s, pat) # 0

\* strings.SplitN(s, sep, 2)[1]: what follows the first occurrence of sep.
AfterFirst(s, sep) == SubSeq(s, Index(s, sep) + Len(sep), Len(s))

\* strings.SplitN(s, sep, 2)[0]: what precedes the first occurrence of sep.
BeforeFirst(s, sep) == SubSeq(s, 1, Index(s, sep) - 1)

\* strings.Split(s, "/"): the segments between slashes, empty ones kept.
RECURSIVE SplitFrom(_, _, _)
SplitFrom(s, start, i) ==
    IF i > Len(s) THEN << SubSeq(s, start, Len(s)) >>
    ELSE IF s[i] = 47 THEN << SubSeq(s, start, i - 1) >> \o SplitFrom(s, i + 1, i + 1)
    ELSE SplitFrom(s, start, i + 1)

Split(s) == SplitFrom(s, 1, 1)

\* ------------------------------------------------------------- base64url

\* The URL-safe alphabet's character (ASCII) of a 6-bit value; used to build
\* tokens, the inverse of decodeMap.
ToChar(v) ==
    IF v < 26 THEN 65 + v
    ELSE IF v < 52 THEN 97 + (v - 26)
    ELSE IF v < 62 THEN 48 + (v - 52)
    ELSE IF v = 62 THEN 45
    ELSE 95

\* base64.URLEncoding's decodeMap: the 6-bit value of a character, 255 (0xff)
\* for a character outside the alphabet.
decodeMap(c) ==
    IF c >= 65 /\ c <= 90 THEN c - 65
    ELSE IF c >= 97 /\ c <= 122 THEN c - 97 + 26
    ELSE IF c >= 48 /\ c <= 57 THEN c - 48 + 52
    ELSE IF c = 45 THEN 62
    ELSE IF c = 95 THEN 63
    ELSE 255

\* base64.RawURLEncoding.EncodeToString: the unpadded URL-safe encoding of a
\* byte sequence (how a token is built from its bytes).
RECURSIVE EncodeRaw(_)
EncodeRaw(b) ==
    IF Len(b) = 0 THEN << >>
    ELSE IF Len(b) = 1 THEN
        << ToChar(b[1] \div 4), ToChar((b[1] % 4) * 16) >>
    ELSE IF Len(b) = 2 THEN
        << ToChar(b[1] \div 4),
           ToChar((b[1] % 4) * 16 + b[2] \div 16),
           ToChar((b[2] % 16) * 4) >>
    ELSE
        << ToChar(b[1] \div 4),
           ToChar((b[1] % 4) * 16 + b[2] \div 16),
           ToChar((b[2] % 16) * 4 + b[3] \div 64),
           ToChar(b[3] % 64) >> \o EncodeRaw(SubSeq(b, 4, Len(b)))

\* Skip '\n' and '\r' from position k on.
RECURSIVE SkipNewlines(_, _)
SkipNewlines(src, k) ==
    IF k <= Len(src) /\ src[k] \in {10, 13} THEN SkipNewlines(src, k + 1) ELSE k

\* The bytes a quantum of dlen 6-bit values yields (dbuf padded with zeros):
\* dlen - 1 bytes of the 24-bit value.
QuantumBytes(dbuf) ==
    LET d(i) == IF i <= Len(dbuf) THEN dbuf[i] ELSE 0
        val == d(1) * 262144 + d(2) * 4096 + d(3) * 64 + d(4)
        all == << val \div 65536, (val \div 256) % 256, val % 256 >>
    IN SubSeq(all, 1, Len(dbuf) - 1)

\* Encoding.decodeQuantum of the padded, non-strict URL encoding: reads up to
\* four alphabet characters from position si; err is TRUE for a
\* CorruptInputError.
RECURSIVE decodeQuantum(_, _, _)
decodeQuantum(src, si, dbuf) ==
    IF Len(dbuf) = 4 THEN [err |-> FALSE, si |-> si, bytes |-> QuantumBytes(dbuf)]
    ELSE IF si > Len(src) THEN
        IF Len(dbuf) = 0 THEN [err |-> FALSE, si |-> si, bytes |-> << >>]
        ELSE [err |-> TRUE, si |-> si, bytes |-> << >>]
    ELSE IF decodeMap(src[si]) # 255 THEN
        decodeQuantum(src, si + 1, Append(dbuf, decodeMap(src[si])))
    ELSE IF src[si] \in {10, 13} THEN decodeQuantum(src, si + 1, dbuf)
    ELSE IF src[si] # 61 THEN [err |-> TRUE, si |-> si + 1, bytes |-> << >>]
    ELSE IF Len(dbuf) < 2 THEN [err |-> TRUE, si |-> si + 1, bytes |-> << >>]
    ELSE
        LET k == SkipNewlines(src, si + 1)
            \* with two values read, a second '=' is expected
            second == IF Len(dbuf) = 2
                      THEN IF k > Len(src) \/ src[k] # 61 THEN 0 ELSE k + 1
                      ELSE si + 1
            rest == SkipNewlines(src, second)
        IN IF second = 0 THEN [err |-> TRUE, si |-> k, bytes |-> << >>]
           ELSE IF rest <= Len(src)
                THEN [err |-> TRUE, si |-> rest, bytes |-> << >>]   \* trailing garbage
                ELSE [err |-> FALSE, si |-> rest, bytes |-> QuantumBytes(dbuf)]

\* base64.URLEncoding.DecodeString: quantum after quantum until the input is
\* used up or one of them fails.
RECURSIVE DecodeFrom(_, _, _)
DecodeFrom(src, si, acc) ==
    IF si > Len(src) THEN [err |-> FALSE, bytes |-> acc]
    ELSE LET q == decodeQuantum(src, si, << >>)
         IN IF q.err THEN [err |-> TRUE, bytes |-> << >>]
            ELSE DecodeFrom(src, q.si, acc \o q.bytes)

DecodeString(src) == DecodeFrom(src, 1, << >>)

\* base64.URLEncoding.DecodeString(base64Str + "==")
DecodePadded(base64Str) == DecodeString(base64Str \o << 61, 61 >>)

\* --------------------------------------------------- binary token decoder

\* "Remove prefix"
StripPrefix(s) == IF HasPrefix(s, Prefix) THEN SubSeq(s, Len(Prefix) + 1, Len(s)) ELSE s

\* "Remove suffix"
StripSuffix(s) == IF HasSuffix(s, Suffix) THEN SubSeq(s, 1, Len(s) - Len(Suffix)) ELSE s

\* A length test that only asks for a non-empty buffer (LongEnough's mutant).
LongEnoughLoose(n, length) == n > 0

\* "len(decodedStr) > length+1"
LongEnough(n, length) == n > length + 1

\* "Extract URL based on length byte": Go's s[2 : length+1] is SubSeq(s, 3,
\* length + 1), s[1 : length+1] is SubSeq(s, 2, length + 1).
ExtractByLength(s) ==
    IF Len(s) > 0 THEN
        LET length == s[1]
        IN IF length >= 128 /\ LongEnough(Len(s), length) THEN SubSeq(s, 3, length + 1)
           ELSE IF LongEnough(Len(s), length) THEN SubSeq(s, 2, length + 1)
           ELSE s
    ELSE s

\* The decoded string of a byte sequence: prefix, suffix, length byte.
BinaryDecode(bytes) == ExtractByLength(StripSuffix(StripPrefix(bytes)))

\* Whether Go accepts the slice expression s[lo:hi] on a string of length n
\* (it panics otherwise), and the index expression s[k].
InBounds(n, lo, hi) == 0 <= lo /\ lo <= hi /\ hi <= n
IndexOk(n, k) == 0 <= k /\ k < n

\* Whether a slice expression of "Extract URL based on length byte" is out
\* of range on s.
ExtractPanics(s) ==
    IF Len(s) > 0 THEN
        LET length == s[1]
        IN IF length >= 128 /\ LongEnough(Len(s), length)
           THEN ~InBounds(Len(s), 2, length + 1)
           ELSE IF LongEnough(Len(s), length) THEN ~InBounds(Len(s), 1, length + 1)
           ELSE FALSE
    ELSE FALSE

\* Whether one of the slice expressions of the three steps is out of range:
\* decodedStr[len(prefix):], decodedStr[:len(decodedStr)-len(suffix)] and
\* the length-byte slices.
BinaryPanics(bytes) ==
    LET s1 == StripPrefix(bytes)
        s2 == StripSuffix(s1)
    IN \/ HasPrefix(bytes, Prefix) /\ ~InBounds(Len(bytes), Len(Prefix), Len(bytes))
       \/ HasSuffix(s1, Suffix) /\ ~InBounds(Len(s1), 0, Len(s1) - Len(Suffix))
       \/ ExtractPanics(s2)

\* -------------------------------------------------------------- data model

\* DecodeResult{Status, DecodedURL, Message}
Result(status, decodedURL, message) ==
    [Status |-> status, DecodedURL |-> decodedURL, Message |-> message]

\* The zero value of DecodeResult, what make([]DecodeResult, n) holds.
ZeroResult == Result(FALSE, << >>, "")

\* A result slice that starts empty, to be appended to (MakeResults' mutant).
MakeEmpty(n, fill) == << >>

\* "results := make([]DecodeResult, len(sourceURLs))", every slot set to
\* fill (the zero value, or the placeholder DecodeURLsWithContext writes).
MakeResults(n, fill) == [i \in 1..n |-> fill]

\* A source URL as url.Parse sees it: whether it parses, its Host and its
\* Path; raw is the string itself.
MkURL(host, path) ==
    [parseOk |-> TRUE, host |-> host, path |-> path, raw |-> Scheme \o host \o path]

\* A string url.Parse rejects ("%zz": invalid URL escape).
BadURL == [parseOk |-> FALSE, host |-> << >>, path |-> << >>, raw |-> << 37, 122, 122 >>]

\* A URL whose raw path differs from its parsed Path (percent escapes).
EscapedURL(host, path, rawPath) ==
    [parseOk |-> TRUE, host |-> host, path |-> path, raw |-> Scheme \o host \o rawPath]

\* https://news.google.com/articles/<token>
ArticleURL(token) == MkURL(NewsHost, << 47 >> \o Articles \o << 47 >> \o token)

\* https://news.google.com/read/<token>
ReadURL(token) == MkURL(NewsHost, << 47 >> \o Read \o << 47 >> \o token)

\* https://example.com/articles/<token>
ForeignURL(token) == MkURL(OtherHost, << 47 >> \o Articles \o << 47 >> \o token)

\* An HTTP exchange as the client sees it: a transport error, or a status
\* and a body.
NetErr == [kind |-> "neterr", status |-> 0, body |-> << >>]
Http(status, body) == [kind |-> "http", status |-> status, body |-> body]

\* The text of err.Error() for a failed exchange.
TransportErrText == "transport error"
StatusErrText(status) == "failed to fetch data from Google, status: " \o ToString(status)

\* --------------------------------------------------- single-reference RPC

\* fetchDecodedBatchExecute: [err, url]; err = "" is Go's nil error.
fetchDecodedBatchExecute(resp) ==
    IF resp.kind = "neterr" THEN [err |-> TransportErrText, url |-> << >>]
    ELSE IF resp.status # 200 THEN [err |-> StatusErrText(resp.status), url |-> << >>]
    ELSE IF ~Contains(resp.body, Header)
        THEN [err |-> "header not found in response", url |-> << >>]
    ELSE LET start == AfterFirst(resp.body, Header)
         IN IF ~Contains(start, Footer)
            THEN [err |-> "footer not found in response", url |-> << >>]
            ELSE [err |-> "", url |-> BeforeFirst(start, Footer)]

\* ------------------------------------------------------ DecoderV1 / V3

\* A host test that lets every host through (IsNewsHost's mutant).
AnyHost(host) == TRUE

\* parsedURL.Host == "news.google.com"
IsNewsHost(host) == host = NewsHost

\* path[len(path)-2] and path[len(path)-1] of strings.Split(Path, "/")
PathType(path) == path[Len(path) - 1]
LastSegment(path) == path[Len(path)]

\* DecoderV1: the decoded string, or the source URL itself when the URL is
\* not an /articles/ URL of the news host or its token is not base64.
DecoderV1(u) ==
    IF ~u.parseOk THEN u.raw
    ELSE LET path == Split(u.path)
         IN IF IsNewsHost(u.host) /\ Len(path) > 1 /\ PathType(path) = Articles
            THEN LET d == DecodePadded(LastSegment(path))
                 IN IF d.err THEN u.raw ELSE BinaryDecode(d.bytes)
            ELSE u.raw

\* DecoderV3 with the response resp of its one RPC call (made only for an
\* AU_yqL reference).
DecoderV3(u, resp) ==
    IF ~u.parseOk THEN Result(FALSE, << >>, "failed to parse URL: invalid URL escape")
    ELSE LET path == Split(u.path)
         IN IF IsNewsHost(u.host) /\ Len(path) > 1
               /\ (PathType(path) = Articles \/ PathType(path) = Read)
            THEN LET base64Str == LastSegment(path)
                     d == DecodePadded(base64Str)
                     decodedStr == BinaryDecode(d.bytes)
                 IN IF d.err
                    THEN Result(FALSE, << >>, "failed to decode base64: illegal base64 data")
                    ELSE IF HasPrefix(decodedStr, AUPrefix)
                    THEN LET r == fetchDecodedBatchExecute(resp)
                         IN IF r.err # ""
                            THEN Result(FALSE, << >>, "batch execute failed: " \o r.err)
                            ELSE Result(TRUE, r.url, "")
                    ELSE Result(TRUE, decodedStr, "")
            ELSE Result(FALSE, << >>, "invalid Google News URL")

\* ------------------------------------------------------------- batched RPC

\* The marker scan of fetchDecodedBatchExecuteMultiple: one URL for every
\* header that a footer follows, in order of appearance.
RECURSIVE ScanURLs(_)
ScanURLs(text) ==
    IF ~Contains(text, Header) THEN << >>
    ELSE LET start == AfterFirst(text, Header)
         IN IF ~Contains(start, Footer) THEN << >>
            ELSE << BeforeFirst(start, Footer) >> \o ScanURLs(AfterFirst(start, Footer))

\* Envelopes tagged with the 0-based loop index (Envelopes' mutant).
EnvelopesZeroBased(ids) == [j \in 1..Len(ids) |-> [id |-> ids[j], tag |-> j - 1]]

\* The envelopes of the one POST of fetchDecodedBatchExecuteMultiple: one
\* for every id, in order, tagged i+1 for the 0-based loop index i (the
\* j-th id here has i = j - 1).
Envelopes(ids) == [j \in 1..Len(ids) |-> [id |-> ids[j], tag |-> (j - 1) + 1]]

\* fetchDecodedBatchExecuteMultiple on the response resp of its one POST:
\* the BatchDecodeResult and the error (err = "" is nil).
fetchDecodedBatchExecuteMultiple(ids, resp) ==
    IF resp.kind = "neterr"
        THEN [Status |-> FALSE, URLs |-> << >>, err |-> TransportErrText]
    ELSE IF resp.status # 200
        THEN [Status |-> FALSE, URLs |-> << >>, err |-> StatusErrText(resp.status)]
    ELSE [Status |-> TRUE, URLs |-> ScanURLs(resp.body), err |-> ""]

\* ------------------------------------------------------------- DecoderV4

\* One iteration of DecoderV4's first loop on URL u: the result settled
\* locally, or pending = TRUE with the token to batch.
V4Local(u) ==
    IF ~u.parseOk
    THEN [pending |-> FALSE, token |-> << >>,
          result |-> Result(FALSE, << >>, "failed to parse URL: invalid URL escape")]
    ELSE LET path == Split(u.path)
         IN IF ~IsNewsHost(u.host) \/ Len(path) <= 1
               \/ (PathType(path) # Articles /\ PathType(path) # Read)
            THEN [pending |-> FALSE, token |-> << >>,
                  result |-> Result(FALSE, << >>, "invalid Google News URL")]
            ELSE LET base64Str == LastSegment(path)
                     d == DecodePadded(base64Str)
                     decodedStr == BinaryDecode(d.bytes)
                 IN IF d.err
                    THEN [pending |-> FALSE, token |-> << >>,
                          result |-> Result(FALSE, << >>,
                                            "failed to decode base64: illegal base64 data")]
                    ELSE IF HasPrefix(decodedStr, AUPrefix)
                    THEN [pending |-> TRUE, token |-> base64Str, result |-> ZeroResult]
                    ELSE [pending |-> FALSE, token |-> << >>,
                          result |-> Result(TRUE, decodedStr, "")]

\* idToIndex[base64Str] = i on a Go map (indices are 1-based here).
MapSet(m, key, i) == [k \in DOMAIN m \cup {key} |-> IF k = key THEN i ELSE m[k]]

\* "for _, id := range batchIDs { results[idToIndex[id]] = failure }"
RECURSIVE FailPending(_, _, _, _, _)
FailPending(res, ids, idx, msg, j) ==
    IF j > Len(ids) THEN res
    ELSE FailPending([res EXCEPT ![idx[ids[j]]] = Result(FALSE, << >>, msg)],
                     ids, idx, msg, j + 1)

\* The j-th returned URL written to the j-th slot (SlotOf's mutant).
SlotByPosition(ids, idx, j) == j

\* The slot that the j-th returned URL is written to.
SlotOf(ids, idx, j) == idx[ids[j]]

\* "for j, decodedURL := range batchResult.URLs { if j < len(batchIDs) {...} }"
RECURSIVE FillPending(_, _, _, _, _)
FillPending(res, ids, idx, urls, j) ==
    IF j > Len(urls) THEN res
    ELSE IF j <= Len(ids)
    THEN FillPending([res EXCEPT ![SlotOf(ids, idx, j)] = Result(TRUE, urls[j], "")],
                     ids, idx, urls, j + 1)
    ELSE FillPending(res, ids, idx, urls, j + 1)

\* A batch phase that, on an error of the call, marks every input index
\* failed, the ones settled locally too (V4Batch's mutant).
V4BatchFailAll(res, ids, idx, resp) ==
    IF Len(ids) > 0
    THEN LET b == fetchDecodedBatchExecuteMultiple(ids, resp)
         IN IF b.err # ""
            THEN [i \in 1..Len(res) |-> Result(FALSE, << >>, "batch execute failed: " \o b.err)]
            ELSE IF b.Status THEN FillPending(res, ids, idx, b.URLs, 1)
            ELSE res
    ELSE res

\* "Process batch IDs": the results after the batch phase, given the
\* response of the one batched call.
V4Batch(res, ids, idx, resp) ==
    IF Len(ids) > 0
    THEN LET b == fetchDecodedBatchExecuteMultiple(ids, resp)
         IN IF b.err # "" THEN FailPending(res, ids, idx, "batch execute failed: " \o b.err, 1)
            ELSE IF b.Status THEN FillPending(res, ids, idx, b.URLs, 1)
            ELSE res
    ELSE res

\* ---------------------------------------------------- signature resolver

SgMarker == <<100, 97, 116, 97, 45, 110, 45, 97, 45, 115, 103, 61, 34>>   \* data-n-a-sg="
TsMarker == <<100, 97, 116, 97, 45, 110, 45, 97, 45, 116, 115, 61, 34>>   \* data-n-a-ts="

\* regexp `marker([^"]+)"`.FindStringSubmatch: the first non-empty run of
\* non-quote characters between the marker and a closing quote; << >> when
\* nothing matches.
RECURSIVE FindAttr(_, _)
FindAttr(html, marker) ==
    IF ~Contains(html, marker) THEN << >>
    ELSE LET rest == AfterFirst(html, marker)
             q == Index(rest, << 34 >>)
         IN IF q = 0 THEN << >>
            ELSE IF q = 1 THEN FindAttr(rest, marker)
            ELSE SubSeq(rest, 1, q - 1)

\* extractDataAttributes: err = "" is nil.
extractDataAttributes(html) ==
    IF FindAttr(html, SgMarker) = << >>
        THEN [err |-> "signature not found in HTML", signature |-> << >>, timestamp |-> << >>]
    ELSE IF FindAttr(html, TsMarker) = << >>
        THEN [err |-> "timestamp not found in HTML", signature |-> << >>, timestamp |-> << >>]
    ELSE [err |-> "", signature |-> FindAttr(html, SgMarker),
          timestamp |-> FindAttr(html, TsMarker)]

\* DecodingParams{Status, Signature, Timestamp, Base64Str, Message}
Params(status, sig, ts, b64, msg) ==
    [Status |-> status, Signature |-> sig, Timestamp |-> ts, Base64Str |-> b64,
     Message |-> msg]

\* Whether c is a hexadecimal digit (net/url ishex).
IsHex(c) == (48 <= c /\ c <= 57) \/ (97 <= c /\ c <= 102) \/ (65 <= c /\ c <= 70)

\* The position of the first character c of t, Len(t) + 1 when there is none.
FirstPos(t, c) ==
    LET at == { i \in 1..Len(t) : t[i] = c }
    IN IF at = {} THEN Len(t) + 1 ELSE CHOOSE i \in at : \A j \in at : i <= j

\* Whether the '%' at position i of t begins an escape that ends by position
\* last: two hexadecimal digits follow (net/url unescape).
EscapeAt(t, i, last) == i + 2 <= last /\ IsHex(t[i + 1]) /\ IsHex(t[i + 2])

\* Whether url.Parse rejects prefix + token for a control character, for a
\* prefix with no '%', '?' or '#': it cuts the fragment off at the first '#'
\* and looks for an ASCII control character in what precedes it.
CtlBeforeFragment(token) ==
    \E t \in { token } :
        \E i \in 1..(FirstPos(t, 35) - 1) : t[i] < 32 \/ t[i] = 127

\* Whether url.Parse rejects prefix + token for an escape: the path ends at
\* the first '?' before the fragment (the query is not checked), and a '%'
\* of the path or of the fragment must begin an escape within it.
BadEscape(token) ==
    \E t \in { token } :
    \E h \in { FirstPos(t, 35) } :
    \E q \in { IF FirstPos(t, 63) < h THEN FirstPos(t, 63) ELSE h } :
        \E i \in 1..Len(t) :
            /\ t[i] = 37
            /\ \/ i < q /\ ~EscapeAt(t, i, q - 1)
               \/ i > h /\ ~EscapeAt(t, i, Len(t))

\* The error of http.NewRequest("GET", prefix + base64Str, nil), "" for nil:
\* url.Parse looks for a control character first, then at the escapes.
NewRequestErr(base64Str) ==
    IF CtlBeforeFragment(base64Str) THEN "net/url: invalid control character in URL"
    ELSE IF BadEscape(base64Str) THEN "invalid URL escape"
    ELSE ""

\* An article-page GET that yields on status 200 alone (ArticleYields'
\* mutant).
ArticleYieldsOn200(article) ==
    /\ article.kind = "http"
    /\ article.status = 200

\* Whether the article-page GET yields the parameters (status 200 and both
\* attributes), so that no RSS request is made.
ArticleYields(article) ==
    /\ article.kind = "http"
    /\ article.status = 200
    /\ extractDataAttributes(article.body).err = ""

\* getDecodingParams, given the responses of the article-page GET and of the
\* RSS GET (the latter is read only on the fallback path; neither is sent
\* when the article request cannot be created, and the RSS request, made
\* from the same token, can then always be created).
getDecodingParams(base64Str, article, rss) ==
    IF NewRequestErr(base64Str) # ""
    THEN Params(FALSE, << >>, << >>, << >>,
                "failed to create request: " \o NewRequestErr(base64Str))
    ELSE IF ArticleYields(article)
    THEN LET a == extractDataAttributes(article.body)
         IN Params(TRUE, a.signature, a.timestamp, base64Str, "")
    ELSE IF rss.kind = "neterr"
        THEN Params(FALSE, << >>, << >>, << >>, "request error: " \o TransportErrText)
    ELSE IF rss.status # 200
        THEN Params(FALSE, << >>, << >>, << >>,
                    "RSS request failed with status: " \o ToString(rss.status))
    ELSE LET a == extractDataAttributes(rss.body)
         IN IF a.err # ""
            THEN Params(FALSE, << >>, << >>, << >>, "failed to extract attributes: " \o a.err)
            ELSE Params(TRUE, a.signature, a.timestamp, base64Str, "")

\* The response of the signature RPC: a transport error, or an answer with
\* a status and a body whose shape names the first check it fails ("ok":
\* every level parses and the second inner element is the string url).
RpcErr == [kind |-> "neterr", status |-> 0, shape |-> "", url |-> << >>]
RpcBody(status, shape, url) ==
    [kind |-> "http", status |-> status, shape |-> shape, url |-> url]

\* decodeURLWithParams on the response of its POST: after client.Do it reads
\* the body only, resp.StatusCode is never looked at.
decodeURLWithParams(rpc) ==
    IF rpc.kind = "neterr" THEN Result(FALSE, << >>, "request error: " \o TransportErrText)
    ELSE IF rpc.shape = "noframe" THEN Result(FALSE, << >>, "invalid response format")
    ELSE IF rpc.shape = "badjson"
        THEN Result(FALSE, << >>, "failed to parse response JSON: invalid character")
    ELSE IF rpc.shape = "empty" THEN Result(FALSE, << >>, "empty response")
    ELSE IF rpc.shape = "badouter" THEN Result(FALSE, << >>, "unexpected response structure")
    ELSE IF rpc.shape = "innernotstring"
        THEN Result(FALSE, << >>, "failed to extract inner JSON")
    ELSE IF rpc.shape = "innerbadjson"
        THEN Result(FALSE, << >>, "failed to parse inner JSON: invalid character")
    ELSE IF rpc.shape = "innershort"
        THEN Result(FALSE, << >>, "decoded URL not found in response")
    ELSE IF rpc.shape = "urlnotstring" THEN Result(FALSE, << >>, "decoded URL is not a string")
    ELSE Result(TRUE, rpc.url, "")

\* newDecoderV1WithClient (GoogleDecoder.Decode, NewDecoderV1) on URL u, with
\* the responses net.article, net.rss and net.rpc of the requests it makes.
Decode(u, net) ==
    IF ~u.parseOk THEN Result(FALSE, << >>, "failed to parse URL: invalid URL escape")
    ELSE LET path == Split(u.path)
         IN IF ~IsNewsHost(u.host) \/ Len(path) <= 1
            THEN Result(FALSE, << >>, "invalid Google News URL format")
            ELSE IF PathType(path) # Articles /\ PathType(path) # Read
            THEN Result(FALSE, << >>, "invalid Google News URL format")
            ELSE LET params == getDecodingParams(LastSegment(path), net.article, net.rss)
                 IN IF ~params.Status THEN Result(FALSE, << >>, params.Message)
                    ELSE decodeURLWithParams(net.rpc)

\* Whether newDecoderV1WithClient returns from "Extract base64 string",
\* before any request is made.
DecodeRejects(u) ==
    \/ ~u.parseOk
    \/ LET path == Split(u.path)
       IN \/ ~IsNewsHost(u.host) \/ Len(path) <= 1
          \/ (PathType(path) # Articles /\ PathType(path) # Read)

\* --------------------------------------------------------- GoogleDecoder

\* splitString(s, "/"): the loop over the bytes of s, result grown by append.
RECURSIVE splitStringFrom(_, _, _, _)
splitStringFrom(s, start, i, result) ==
    IF i > Len(s) THEN Append(result, SubSeq(s, start, Len(s)))
    ELSE IF s[i] = 47
    THEN splitStringFrom(s, i + 1, i + 1, Append(result, SubSeq(s, start, i - 1)))
    ELSE splitStringFrom(s, start, i + 1, result)

splitString(s) == splitStringFrom(s, 1, 1, << >>)

\* A split that keeps the empty segments (splitPath's mutant).
splitPathKeepEmpty(path) == splitString(path)

\* splitPath: the segments of splitString that are not empty.
splitPath(path) == SelectSeq(splitString(path), LAMBDA p : p # << >>)

\* GoogleDecoder.GetBase64Str
GetBase64Str(u) ==
    IF ~u.parseOk THEN Result(FALSE, << >>, "failed to parse URL")
    ELSE LET path == splitPath(u.path)
         IN IF ~IsNewsHost(u.host) \/ Len(path) <= 1
            THEN Result(FALSE, << >>, "invalid Google News URL format")
            ELSE IF PathType(path) # Articles /\ PathType(path) # Read
            THEN Result(FALSE, << >>, "invalid Google News URL format")
            ELSE Result(TRUE, LastSegment(path), "")

\* GNewsDecoder with proxyURL nil ("nil"), a usable proxy URL ("ok") or one
\* that createTransportWithProxy rejects ("bad").
GNewsDecoder(u, proxy, net) ==
    IF proxy = "bad" THEN Result(FALSE, << >>, "parse proxy URL: invalid URL escape")
    ELSE Decode(u, net)

\* ------------------------------------------------ index and slice ranges

\* Whether path[len(path)-2], path[len(path)-1] or a slice of the binary
\* decode is out of range in DecoderV3 (the first loop of DecoderV4 has the
\* same expressions under the same tests).
V3Panics(u) ==
    /\ u.parseOk
    /\ LET path == Split(u.path)
           n == Len(path)
       IN /\ IsNewsHost(u.host)
          /\ n > 1
          /\ \/ ~IndexOk(n, n - 2)
             \/ /\ (PathType(path) = Articles \/ PathType(path) = Read)
                /\ \/ ~IndexOk(n, n - 1)
                   \/ LET d == DecodePadded(LastSegment(path))
                      IN ~d.err /\ BinaryPanics(d.bytes)

\* The same for newDecoderV1WithClient, on the segments path.
PathPanics(host, path) ==
    /\ ~(~IsNewsHost(host) \/ Len(path) <= 1)
    /\ \/ ~IndexOk(Len(path), Len(path) - 2)
       \/ /\ ~(PathType(path) # Articles /\ PathType(path) # Read)
          /\ ~IndexOk(Len(path), Len(path) - 1)

DecodePanics(u) == u.parseOk /\ PathPanics(u.host, Split(u.path))

\* The same for GetBase64Str.
GetBase64StrPanics(u) == u.parseOk /\ PathPanics(u.host, splitPath(u.path))

\* ------------------------------------------------------------------ state

VARIABLES
    \* one call each of DecoderV1 and DecoderV3 on a token (SpecTok)
    tokKind,      \* how the token is built from tokBytes: "raw", "framed", "ref", "text"
    tokBytes,     \* the byte sequence the token is built from
    tokPc,        \* "init", "v1done", "done"
    tokV1,        \* the string DecoderV1 returned
    tokV3,        \* the DecodeResult DecoderV3 returned
    \* one call of DecoderV4 (SpecV4)
    v4URLs,       \* sourceURLs
    v4Pc,         \* "local" (first loop), "batch", "done"
    v4i,          \* the index the first loop is at
    v4Results,    \* results
    batchIDs,     \* batchIDs
    idToIndex,    \* idToIndex
    v4Local,      \* results as the first loop left them (history)
    v4Resp,       \* the response of the batched call (history)
    v4Reqs,       \* the batched requests sent, each the envelopes it carries (history)
    \* one call of DecodeURLs or DecodeURLsWithContext (Spec)
    variant,      \* "DecodeURLs", "DecodeURLsWithContext" or "GNewsDecoderConcurrent"
    limitArg,     \* the concurrency argument of NewConcurrentDecoder
    concurrency,  \* cd.concurrency
    sourceURLs,   \* sourceURLs
    ctxDone,      \* whether ctx.Done() is closed
    mainPc,       \* "construct", "ctorfailed", "spawn", "collect", "returned"
    gpc,          \* each goroutine's position
    sem,          \* number of elements in the sem channel
    resultChan,   \* the buffered result channel's content
    closed,       \* whether resultChan is closed
    wg,           \* the WaitGroup counter
    results,      \* results
    produced,     \* what each goroutine sent (history)
    acquired,     \* how many times each goroutine sent to sem (history)
    released,     \* how many times each goroutine received from sem (history)
    \* one call of a single-URL pipeline (SpecURL)
    uURL,         \* sourceURL
    uInterval,    \* whether interval is non-nil
    uOp,          \* the function called: "none" before the call
    uPc,          \* "init", "article", "rss", "rpc", "sleep", "done"
    uParams,      \* params of newDecoderV1WithClient
    uArticle,     \* the response of the article-page GET (history)
    uRss,         \* the response of the RSS GET, NetErr before it (history)
    uRes,         \* the DecodeResult returned
    uReqs,        \* the requests sent, in order (history)
    uSleeps,      \* the number of time.Sleep calls made (history)
    uPanic,       \* whether an index or slice expression was out of range
    \* the binary decode of one byte buffer (SpecBin)
    binBuf,       \* decodedBytes
    binPc,        \* "init", "done"
    binOut,       \* decodedStr after the three steps
    binPanic      \* whether a slice expression was out of range

tokVars == << tokKind, tokBytes, tokPc, tokV1, tokV3 >>
v4Vars == << v4URLs, v4Pc, v4i, v4Results, batchIDs, idToIndex, v4Local, v4Resp, v4Reqs >>
concVars == << variant, limitArg, concurrency, sourceURLs, ctxDone, mainPc, gpc, sem,
               resultChan, closed, wg, results, produced, acquired, released >>
urlVars == << uURL, uInterval, uOp, uPc, uParams, uArticle, uRss, uRes, uReqs, uSleeps,
             uPanic >>
binVars == << binBuf, binPc, binOut, binPanic >>

\* The marker scan of one response text (SpecScan).
VARIABLES
    scanInput,    \* the response text the scan was given (history)
    scanText,     \* text: what is left to scan
    scanURLs,     \* urls: the URLs collected so far
    scanPc,       \* "loop" | "done"
    scanOut       \* the BatchDecodeResult returned

scanVars == << scanInput, scanText, scanURLs, scanPc, scanOut >>
extVars == << urlVars, binVars, scanVars >>
vars == << tokVars, v4Vars, concVars, extVars >>

\* ------------------------------------------------------------ environment

\* All sequences over S of length at most n.
SeqsUpTo(S, n) == UNION { [1..k -> S] : k \in 0..n }

\* The byte values tokens are drawn over: length indicators 0 and 1, and a
\* letter (97, as a length indicator larger than any buffer here).
ByteAlphabet == {0, 1, 97}

\* Bytes appended so that the whole has a length of 1 modulo 3, the only
\* lengths whose unpadded encoding still decodes with "==" appended; the
\* filler is never the suffix 0xD2 0x01 0x00.
Filler(n) == [i \in 1..(3 - ((n + 2) % 3)) |-> 1]

\* The bytes of an AU_yqL reference whose opaque part ends with tail.
RefBytes(tail) ==
    LET head == Prefix \o << Len(AUPrefix) + Len(tail) >> \o AUPrefix \o tail
    IN head \o Filler(Len(head))

\* The bytes of a token that decodes locally to the string str.
DirectBytes(str) ==
    LET head == Prefix \o << Len(str) >> \o str
    IN head \o Filler(Len(head))

\* The bytes laid out by reversing the decoder's rules: prefix, length byte,
\* payload, suffix.
FramedBytes(p) == Prefix \o << Len(p) >> \o p \o Suffix

\* The token of a SpecTok input.
TokenOf(kind, b) ==
    IF kind = "raw" THEN EncodeRaw(b)
    ELSE IF kind = "framed" THEN EncodeRaw(FramedBytes(b))
    ELSE IF kind = "ref" THEN EncodeRaw(RefBytes(b))
    ELSE b

\* Token strings that are not base64url: '*' inside, a '=' in the middle.
BadTokens == { << 65, 42, 65, 65, 65, 65 >>, << 65, 65, 61, 65, 65, 65 >> }

\* What the aggregator resolves a token to ("u:" and the token).
Resolved(token) == << 117, 58 >> \o token

\* A response body listing urls, each between the result marker and its
\* terminator, with other text around them.
RECURSIVE BodyOf(_)
BodyOf(urls) ==
    IF urls = << >> THEN << 41, 93, 125, 39, 10 >>
    ELSE << 120 >> \o Header \o Head(urls) \o Footer \o BodyOf(Tail(urls))

\* The responses the single-reference RPC is checked against.
SingleResponses(token) ==
    { NetErr, Http(500, << >>), Http(200, BodyOf(<< >>)),
      Http(200, BodyOf(<< Resolved(token) >>)), Http(200, BodyOf(<< << >> >>)),
      Http(200, Header \o Resolved(token)) }

\* A sequence in reverse order.
Reverse(q) == [j \in 1..Len(q) |-> q[Len(q) + 1 - j]]

\* The responses the batched RPC is checked against: failures, and bodies
\* listing the first m resolved URLs, all of them and one more, or all of
\* them in reverse order.
BatchResponses(ids) ==
    LET all == [j \in 1..Len(ids) |-> Resolved(ids[j])]
    IN { NetErr, Http(500, << >>) }
       \cup { Http(200, BodyOf(SubSeq(all, 1, m))) : m \in 0..Len(ids) }
       \cup { Http(200, BodyOf(Append(all, Resolved(<< 88 >>)))) }
       \cup { Http(200, BodyOf(Reverse(all))) }

\* ---------------------------------------------------------------- SpecTok

TokIdle ==
    /\ tokKind = "raw" /\ tokBytes = << >> /\ tokPc = "done"
    /\ tokV1 = << >> /\ tokV3 = ZeroResult

TokInit ==
    /\ tokKind \in {"raw", "framed", "ref", "text"}
    /\ tokBytes \in IF tokKind = "text" THEN BadTokens
                    ELSE SeqsUpTo(ByteAlphabet, IF tokKind = "ref" THEN 1 ELSE MaxLen)
    /\ tokPc = "init"
    /\ tokV1 = << >>
    /\ tokV3 = ZeroResult

\* DecoderV1("https://news.google.com/articles/<token>")
CallDecoderV1 ==
    /\ tokPc = "init"
    /\ tokV1' = DecoderV1(ArticleURL(TokenOf(tokKind, tokBytes)))
    /\ tokPc' = "v1done"
    /\ UNCHANGED << tokKind, tokBytes, tokV3, v4Vars, concVars, extVars >>

\* DecoderV3("https://news.google.com/articles/<token>"), with any response
\* of the RPC.
CallDecoderV3 ==
    /\ tokPc = "v1done"
    /\ \E resp \in SingleResponses(TokenOf(tokKind, tokBytes)) :
           tokV3' = DecoderV3(ArticleURL(TokenOf(tokKind, tokBytes)), resp)
    /\ tokPc' = "done"
    /\ UNCHANGED << tokKind, tokBytes, tokV1, v4Vars, concVars, extVars >>

\* ----------------------------------------------------------------- SpecV4

\* The URLs DecoderV4 is called with: not parseable, not of the news host,
\* a token that is not base64, a token that decodes locally, a token that
\* decodes to the empty string, and three AU_yqL references.
V4Catalog ==
    { BadURL,
      ForeignURL(EncodeRaw(DirectBytes(<< 97, 98 >>))),
      ArticleURL(<< 67, 66, 77, 105 >>),
      ArticleURL(EncodeRaw(DirectBytes(<< 97, 98 >>))),
      ArticleURL(EncodeRaw(<< 0, 0, 0, 0 >>)),
      ReadURL(EncodeRaw(RefBytes(<< 97 >>))),
      ReadURL(EncodeRaw(RefBytes(<< 98 >>))),
      ArticleURL(EncodeRaw(RefBytes(<< 99 >>))) }

V4Idle ==
    /\ v4URLs = << >> /\ v4Pc = "done" /\ v4i = 1 /\ v4Results = << >>
    /\ batchIDs = << >> /\ idToIndex = << >> /\ v4Local = << >> /\ v4Resp = NetErr
    /\ v4Reqs = << >>

V4Init ==
    /\ v4URLs \in SeqsUpTo(V4Catalog, MaxBatch)
    /\ v4Pc = "local"
    /\ v4i = 1
    /\ v4Results = MakeResults(Len(v4URLs), ZeroResult)
    /\ batchIDs = << >>
    /\ idToIndex = << >>
    /\ v4Local = << >>
    /\ v4Resp = NetErr
    /\ v4Reqs = << >>

\* One iteration of "for i, sourceURL := range sourceURLs".
V4LocalStep ==
    /\ v4Pc = "local"
    /\ v4i <= Len(v4URLs)
    /\ LET l == V4Local(v4URLs[v4i])
       IN IF l.pending
          THEN /\ batchIDs' = Append(batchIDs, l.token)
               /\ idToIndex' = MapSet(idToIndex, l.token, v4i)
               /\ UNCHANGED v4Results
          ELSE /\ v4Results' = [v4Results EXCEPT ![v4i] = l.result]
               /\ UNCHANGED << batchIDs, idToIndex >>
    /\ v4i' = v4i + 1
    /\ UNCHANGED << v4URLs, v4Pc, v4Local, v4Resp, v4Reqs, tokVars, concVars, extVars >>

\* The first loop ends.
V4LocalDone ==
    /\ v4Pc = "local"
    /\ v4i > Len(v4URLs)
    /\ v4Pc' = "batch"
    /\ v4Local' = v4Results
    /\ UNCHANGED << v4URLs, v4i, v4Results, batchIDs, idToIndex, v4Resp, v4Reqs, tokVars, concVars, extVars >>

\* "Process batch IDs" and return: the one batched call, made only when a
\* token is pending, gets any response.
V4BatchStep ==
    /\ v4Pc = "batch"
    /\ IF Len(batchIDs) > 0
       THEN /\ \E resp \in BatchResponses(batchIDs) :
                   /\ v4Resp' = resp
                   /\ v4Results' = V4Batch(v4Results, batchIDs, idToIndex, resp)
            /\ v4Reqs' = Append(v4Reqs, Envelopes(batchIDs))
       ELSE UNCHANGED << v4Resp, v4Results, v4Reqs >>
    /\ v4Pc' = "done"
    /\ UNCHANGED << v4URLs, v4i, batchIDs, idToIndex, v4Local, tokVars, concVars, extVars >>

\* ------------------------------------------------------------------- Spec

\* NewConcurrentDecoder: cd.concurrency for the argument given.
NewConcurrentDecoder(n) == IF n <= 0 THEN 10 ELSE n

\* A send that does not wait for room in the channel (CanAcquire's mutant).
CanAcquireAlways(held, capacity) == TRUE

\* Whether "sem <- struct{}{}" can proceed: the channel has room.
CanAcquire(held, capacity) == held < capacity

\* Results appended in order of arrival: the first slot not yet written
\* (Store's mutant).
StoreInArrivalOrder(res, ir) ==
    LET free == { k \in 1..Len(res) :
                    res[k] \in { Result(FALSE, << >>, ""), Result(FALSE, << >>, "not processed") } }
    IN IF free = {} THEN res
       ELSE [res EXCEPT ![CHOOSE k \in free : \A l \in free : k <= l] = ir.result]

\* "results[ir.index] = ir.result"
Store(res, ir) == [res EXCEPT ![ir.index] = ir.result]

\* The result a goroutine yields on ctx.Done().
Cancelled == Result(FALSE, << >>, "context cancelled")

\* The placeholder DecodeURLsWithContext fills results with.
NotProcessed == Result(FALSE, << >>, "not processed")

PageBoth == <<60, 100, 105, 118, 32, 100, 97, 116, 97, 45, 110, 45, 97, 45, 115, 103, 61, 34, 83, 103, 34, 32, 100, 97, 116, 97, 45, 110, 45, 97, 45, 116, 115, 61, 34, 49, 55, 34, 62>>   \* <div data-n-a-sg="Sg" data-n-a-ts="17">

\* The network as one Decode call meets it: everything down, or the article
\* page with both attributes and the RPC resolving the URL's token.
NetDown == [article |-> NetErr, rss |-> NetErr, rpc |-> RpcErr]
NetGood(url) == [article |-> Http(200, PageBoth), rss |-> NetErr, rpc |-> RpcBody(200, "ok", url)]

ConcNets(u) == { NetDown, NetGood(Resolved(LastSegment(Split(u.path)))) }

\* The URLs DecodeURLs is called with: one of another host, which Decode
\* rejects, and one reference of the news host.
ConcCatalog ==
    { ForeignURL(EncodeRaw(RefBytes(<< 97 >>))),
      ReadURL(EncodeRaw(RefBytes(<< 98 >>))) }

ConcIdle ==
    /\ variant = "DecodeURLs" /\ limitArg = 1 /\ concurrency = 1 /\ sourceURLs = << >>
    /\ ctxDone = FALSE /\ mainPc = "returned" /\ gpc = << >> /\ sem = 0
    /\ resultChan = << >> /\ closed = TRUE /\ wg = 0 /\ results = << >>
    /\ produced = << >> /\ acquired = << >> /\ released = << >>

\* GNewsDecoderConcurrent is started with a proxy URL that NewGoogleDecoder
\* rejects; with no proxy or a usable one it is cd.DecodeURLs on
\* NewConcurrentDecoder(decoder, concurrency), the variant "DecodeURLs".
ConcInit ==
    /\ variant \in {"DecodeURLs", "DecodeURLsWithContext", "GNewsDecoderConcurrent"}
    /\ limitArg \in {0, 1, 2}
    /\ concurrency = NewConcurrentDecoder(limitArg)
    /\ sourceURLs \in SeqsUpTo(ConcCatalog, MaxURLs)
    /\ ctxDone \in IF variant = "DecodeURLsWithContext" THEN BOOLEAN ELSE {FALSE}
    /\ mainPc = IF variant = "GNewsDecoderConcurrent" THEN "construct" ELSE "spawn"
    /\ gpc = [i \in 1..Len(sourceURLs) |-> "unspawned"]
    /\ sem = 0
    /\ resultChan = << >>
    /\ closed = FALSE
    /\ wg = 0
    /\ results = MakeResults(Len(sourceURLs),
                            IF variant = "DecodeURLsWithContext" THEN NotProcessed
                            ELSE ZeroResult)
    /\ produced = [i \in 1..Len(sourceURLs) |-> << >>]
    /\ acquired = [i \in 1..Len(sourceURLs) |-> 0]
    /\ released = [i \in 1..Len(sourceURLs) |-> 0]

\* GNewsDecoderConcurrent: NewGoogleDecoder returns an error, every slot of
\* results is set to it ("for i := range results") and results is returned.
ConstructFails ==
    /\ variant = "GNewsDecoderConcurrent"
    /\ mainPc = "construct"
    /\ results' = [i \in 1..Len(results) |->
                     Result(FALSE, << >>, "parse proxy URL: invalid URL escape")]
    /\ mainPc' = "ctorfailed"
    /\ UNCHANGED << variant, limitArg, concurrency, sourceURLs, ctxDone, gpc,
                    sem, resultChan, closed, wg, produced, acquired, released,
                    tokVars, v4Vars, extVars >>

\* One iteration of the spawning loop: "wg.Add(1); go func(idx, url) {...}".
Spawn(i) ==
    /\ mainPc = "spawn"
    /\ gpc[i] = "unspawned"
    /\ \A j \in 1..(i - 1) : gpc[j] # "unspawned"
    /\ wg' = wg + 1
    /\ gpc' = [gpc EXCEPT ![i] = "acquire"]
    /\ UNCHANGED << variant, limitArg, concurrency, sourceURLs, ctxDone, mainPc, sem,
                    resultChan, closed, results, produced, acquired, released,
                    tokVars, v4Vars, extVars >>

\* The spawning loop ends: the closer goroutine starts and main goes on to
\* "for ir := range resultChan".
SpawnDone ==
    /\ mainPc = "spawn"
    /\ \A j \in 1..Len(sourceURLs) : gpc[j] # "unspawned"
    /\ mainPc' = "collect"
    /\ UNCHANGED << variant, limitArg, concurrency, sourceURLs, ctxDone, gpc, sem,
                    resultChan, closed, wg, results, produced, acquired, released,
                    tokVars, v4Vars, extVars >>

\* "sem <- struct{}{}": in DecodeURLs the goroutine's first statement, in
\* DecodeURLsWithContext one case of the select, which Go may choose
\* whenever it is ready, whether or not ctx.Done() is ready too.
Acquire(i) ==
    /\ gpc[i] = "acquire"
    /\ CanAcquire(sem, concurrency)
    /\ sem' = sem + 1
    /\ acquired' = [acquired EXCEPT ![i] = @ + 1]
    /\ gpc' = [gpc EXCEPT ![i] = "decode"]
    /\ UNCHANGED << variant, limitArg, concurrency, sourceURLs, ctxDone, mainPc,
                    resultChan, closed, wg, results, produced, released,
                    tokVars, v4Vars, extVars >>

\* A cancellation that is also observed while Decode runs (AtSelect's
\* mutant).
AtSelectOrInFlight(pc) == pc \in {"acquire", "decode"}

\* Where ctx.Done() is read: in the select that acquires the permit, and
\* nowhere else in the goroutine.
AtSelect(pc) == pc = "acquire"

\* "case <-ctx.Done()": the goroutine sends the cancellation result and
\* returns (only wg.Done() is deferred by then).
SelectCancelled(i) ==
    /\ variant = "DecodeURLsWithContext"
    /\ AtSelect(gpc[i])
    /\ ctxDone
    /\ resultChan' = Append(resultChan, [index |-> i, result |-> Cancelled])
    /\ produced' = [produced EXCEPT ![i] = Append(produced[i], Cancelled)]
    /\ gpc' = [gpc EXCEPT ![i] = "wgdone"]
    /\ UNCHANGED << variant, limitArg, concurrency, sourceURLs, ctxDone, mainPc, sem,
                    closed, wg, results, acquired, released,
                    tokVars, v4Vars, extVars >>

\* "result := cd.decoder.Decode(url, interval); resultChan <- ..." (the
\* channel's capacity is len(sourceURLs): the send never blocks).
DecodeAndSend(i) ==
    /\ gpc[i] = "decode"
    /\ gpc' = [gpc EXCEPT ![i] = "release"]
    /\ \E net \in ConcNets(sourceURLs[i]) :
       \E r \in { Decode(sourceURLs[i], net) } :
           /\ resultChan' = Append(resultChan, [index |-> i, result |-> r])
           /\ produced' = [produced EXCEPT ![i] = Append(produced[i], r)]
    /\ UNCHANGED << variant, limitArg, concurrency, sourceURLs, ctxDone, mainPc, sem,
                    closed, wg, results, acquired, released,
                    tokVars, v4Vars, extVars >>

\* A permit that is kept when the goroutine returns (ReleasePermit's mutant).
KeepPermit(held) == held

\* "<-sem": one permit fewer is held.
ReleasePermit(held) == held - 1

\* The deferred "<-sem".
Release(i) ==
    /\ gpc[i] = "release"
    /\ sem' = ReleasePermit(sem)
    /\ released' = [released EXCEPT ![i] = @ + 1]
    /\ gpc' = [gpc EXCEPT ![i] = "wgdone"]
    /\ UNCHANGED << variant, limitArg, concurrency, sourceURLs, ctxDone, mainPc,
                    resultChan, closed, wg, results, produced, acquired,
                    tokVars, v4Vars, extVars >>

\* A completion that is not signalled (Done's mutant).
NotDone(counter) == counter

\* "wg.Done()": the WaitGroup counter goes down by one.
Done(counter) == counter - 1

\* The deferred "wg.Done()".
WgDone(i) ==
    /\ gpc[i] = "wgdone"
    /\ wg' = Done(wg)
    /\ gpc' = [gpc EXCEPT ![i] = "exit"]
    /\ UNCHANGED << variant, limitArg, concurrency, sourceURLs, ctxDone, mainPc, sem,
                    resultChan, closed, results, produced, acquired, released,
                    tokVars, v4Vars, extVars >>

\* The caller cancels ctx (or its deadline passes).
Cancel ==
    /\ variant = "DecodeURLsWithContext"
    /\ ~ctxDone
    /\ mainPc # "returned"
    /\ ctxDone' = TRUE
    /\ UNCHANGED << variant, limitArg, concurrency, sourceURLs, mainPc, gpc, sem,
                    resultChan, closed, wg, results, produced, acquired, released,
                    tokVars, v4Vars, extVars >>

\* The closer goroutine: "wg.Wait(); close(resultChan)".
CloseChan ==
    /\ mainPc \in {"collect", "returned"}
    /\ wg = 0
    /\ ~closed
    /\ closed' = TRUE
    /\ UNCHANGED << variant, limitArg, concurrency, sourceURLs, ctxDone, mainPc, gpc, sem,
                    resultChan, wg, results, produced, acquired, released,
                    tokVars, v4Vars, extVars >>

\* One iteration of "for ir := range resultChan".
Collect ==
    /\ mainPc = "collect"
    /\ resultChan # << >>
    /\ results' = Store(results, Head(resultChan))
    /\ resultChan' = Tail(resultChan)
    /\ UNCHANGED << variant, limitArg, concurrency, sourceURLs, ctxDone, mainPc, gpc, sem,
                    closed, wg, produced, acquired, released,
                    tokVars, v4Vars, extVars >>

\* The range loop ends on the closed, drained channel: "return results".
Return ==
    /\ mainPc = "collect"
    /\ resultChan = << >>
    /\ closed
    /\ mainPc' = "returned"
    /\ UNCHANGED << variant, limitArg, concurrency, sourceURLs, ctxDone, gpc, sem,
                    resultChan, closed, wg, results, produced, acquired, released,
                    tokVars, v4Vars, extVars >>

\* ---------------------------------------------------------------- SpecURL

\* Most path segments of a URL drawn in SpecURL.
MaxSegs == 3

RefTok == EncodeRaw(RefBytes(<< 97 >>))
DirectTok == EncodeRaw(DirectBytes(<< 97, 98 >>))

\* The path segments URLs are built from: the empty segment (a doubled or
\* trailing slash), the two path types, a reference token and a token that
\* decodes locally.
SegAlphabet == { << >>, Articles, Read, RefTok, DirectTok }

\* The path with the given segments, a slash before each ("" for none).
RECURSIVE JoinPath(_)
JoinPath(segs) ==
    IF segs = << >> THEN << >> ELSE << 47 >> \o Head(segs) \o JoinPath(Tail(segs))

\* Tokens that reach Decode through percent escapes of the source URL:
\* "%zz" (from %25zz), "a\nb" (from a%0Ab) and "a?%z" (from a%3F%25z).
BadEscapeTok == << 37, 122, 122 >>
CtlTok == << 97, 10, 98 >>
QueryTok == << 97, 63, 37, 122 >>

\* https://news.google.com/articles/%25zz, .../read/a%0Ab, .../articles/a%3F%25z
EscapedURLs ==
    { EscapedURL(NewsHost, << 47 >> \o Articles \o << 47 >> \o BadEscapeTok,
                 << 47 >> \o Articles \o << 47, 37, 50, 53, 122, 122 >>),
      EscapedURL(NewsHost, << 47 >> \o Read \o << 47 >> \o CtlTok,
                 << 47 >> \o Read \o << 47, 97, 37, 48, 65, 98 >>),
      EscapedURL(NewsHost, << 47 >> \o Articles \o << 47 >> \o QueryTok,
                 << 47 >> \o Articles \o << 47, 97, 37, 51, 70, 37, 50, 53, 122 >>) }

\* The source URLs of SpecURL: one that does not parse, three with percent
\* escapes, and every path of at most MaxSegs segments on the news host and
\* on another host.
URLCatalog ==
    { BadURL } \cup EscapedURLs \cup
    { MkURL(h, JoinPath(segs)) : h \in { NewsHost, OtherHost },
                                 segs \in SeqsUpTo(SegAlphabet, MaxSegs) }

\* The last element of strings.Split(Path, "/") (never empty: Split of ""
\* is one empty segment).
TokenOfURL(u) == LastSegment(Split(u.path))

PageSgOnly == <<60, 100, 105, 118, 32, 100, 97, 116, 97, 45, 110, 45, 97, 45, 115, 103, 61, 34, 83, 103, 34, 62>>   \* <div data-n-a-sg="Sg">

PageTsOnly == <<60, 100, 105, 118, 32, 100, 97, 116, 97, 45, 110, 45, 97, 45, 116, 115, 61, 34, 49, 56, 34, 62>>   \* <div data-n-a-ts="18">

PageEmptySg == <<60, 100, 105, 118, 32, 100, 97, 116, 97, 45, 110, 45, 97, 45, 115, 103, 61, 34, 34, 32, 100, 97, 116, 97, 45, 110, 45, 97, 45, 116, 115, 61, 34, 49, 56, 34, 62>>   \* <div data-n-a-sg="" data-n-a-ts="18">

PageBothB == <<60, 100, 105, 118, 32, 100, 97, 116, 97, 45, 110, 45, 97, 45, 115, 103, 61, 34, 83, 104, 34, 32, 100, 97, 116, 97, 45, 110, 45, 97, 45, 116, 115, 61, 34, 49, 56, 34, 62>>   \* <div data-n-a-sg="Sh" data-n-a-ts="18">

\* The responses of the article-page GET and of the RSS GET: a transport
\* error, a status other than 200, and pages with one attribute, with an
\* attribute that has no value, and with both (two pages of different values).
PageResponses ==
    { NetErr, Http(404, << >>), Http(200, PageSgOnly), Http(200, PageTsOnly),
      Http(200, PageEmptySg), Http(200, PageBoth), Http(200, PageBothB) }

\* The responses of the signature RPC: a transport error, every body under
\* status 200, and under status 500 a body with no framing line and a
\* well-formed one.
RpcResponses(token) ==
    { RpcErr } \cup
    { RpcBody(200, shape, Resolved(token)) :
        shape \in { "noframe", "badjson", "empty", "badouter", "innernotstring",
                    "innerbadjson", "innershort", "urlnotstring", "ok" } } \cup
    { RpcBody(500, shape, Resolved(token)) : shape \in { "noframe", "ok" } }

\* Whether a request failed: a transport error or a status other than 200,
\* for the GETs and for the POST alike.
GetFailed(resp) == resp.kind = "neterr" \/ resp.status # 200
PostFailed(rpc) == rpc.kind = "neterr" \/ rpc.status # 200

\* A sent request as the log keeps it.
Req(ep, failed) == [ep |-> ep, failed |-> failed]

NoParams == Params(FALSE, << >>, << >>, << >>, "")

URLIdle ==
    /\ uURL = BadURL /\ uInterval = FALSE /\ uOp = "none" /\ uPc = "done"
    /\ uParams = NoParams /\ uArticle = NetErr /\ uRss = NetErr /\ uRes = ZeroResult
    /\ uReqs = << >> /\ uSleeps = 0 /\ uPanic = FALSE

URLInit ==
    /\ uURL \in URLCatalog
    /\ uInterval = FALSE
    /\ uOp = "none"
    /\ uPc = "init"
    /\ uParams = NoParams
    /\ uArticle = NetErr
    /\ uRss = NetErr
    /\ uRes = ZeroResult
    /\ uReqs = << >>
    /\ uSleeps = 0
    /\ uPanic = FALSE

\* Whether DecoderV3 gets as far as fetchDecodedBatchExecute: the URL is
\* accepted, its token decodes and the decoded string is an AU_yqL reference.
V3Fetches(u) ==
    /\ u.parseOk
    /\ ~V3Panics(u)
    /\ LET path == Split(u.path)
       IN /\ IsNewsHost(u.host) /\ Len(path) > 1
          /\ (PathType(path) = Articles \/ PathType(path) = Read)
          /\ LET d == DecodePadded(LastSegment(path))
             IN ~d.err /\ HasPrefix(BinaryDecode(d.bytes), AUPrefix)

\* DecoderV3(sourceURL), with any response of its RPC: the POST to
\* batchexecute?rpcids=Fbv4je is sent only for a reference.
URLDecoderV3 ==
    /\ uPc = "init"
    /\ uOp' = "DecoderV3"
    /\ \E resp \in SingleResponses(TokenOfURL(uURL)) :
           /\ uRes' = DecoderV3(uURL, resp)
           /\ uReqs' = IF V3Fetches(uURL)
                       THEN Append(uReqs, Req("Fbv4je", GetFailed(resp)))
                       ELSE uReqs
    /\ uPanic' = V3Panics(uURL)
    /\ uPc' = "done"
    /\ UNCHANGED << uURL, uInterval, uParams, uArticle, uRss, uSleeps,
                    binVars, scanVars, tokVars, v4Vars, concVars >>

\* DecoderV4([]string{sourceURL}), with any response of the batched call:
\* the first loop's one iteration, then "Process batch IDs", which sends the
\* one POST only when the URL's token is pending. The whole call is
\* recorded: its input, its batch, the response and the results.
URLDecoderV4 ==
    /\ uPc = "init"
    /\ uOp' = "DecoderV4"
    /\ v4URLs' = << uURL >>
    /\ LET l == V4Local(uURL)
       IN IF l.pending /\ ~V3Panics(uURL)
          THEN /\ batchIDs' = << l.token >>
               /\ idToIndex' = MapSet(<< >>, l.token, 1)
               /\ v4Local' = MakeResults(1, ZeroResult)
               /\ \E resp \in BatchResponses(<< l.token >>) :
                      /\ v4Resp' = resp
                      /\ v4Results' = V4Batch(MakeResults(1, ZeroResult), << l.token >>,
                                              MapSet(<< >>, l.token, 1), resp)
                      /\ uReqs' = Append(uReqs, Req("Fbv4je", GetFailed(resp)))
               /\ v4Reqs' = Append(v4Reqs, Envelopes(<< l.token >>))
          ELSE /\ v4Results' = << l.result >>
               /\ v4Local' = << l.result >>
               /\ UNCHANGED << batchIDs, idToIndex, v4Resp, v4Reqs, uReqs >>
    /\ uRes' = v4Results'[1]
    /\ v4i' = 2
    /\ v4Pc' = "done"
    /\ uPanic' = V3Panics(uURL)
    /\ uPc' = "done"
    /\ UNCHANGED << uURL, uInterval, uParams, uArticle, uRss, uSleeps,
                    binVars, scanVars, tokVars, concVars >>

\* GoogleDecoder.GetBase64Str(sourceURL)
URLGetBase64Str ==
    /\ uPc = "init"
    /\ uOp' = "GetBase64Str"
    /\ uRes' = GetBase64Str(uURL)
    /\ uPanic' = GetBase64StrPanics(uURL)
    /\ uPc' = "done"
    /\ UNCHANGED << uURL, uInterval, uParams, uArticle, uRss, uReqs, uSleeps,
                    binVars, scanVars, tokVars, v4Vars, concVars >>

\* What one whole call of newDecoderV1WithClient on URL u leaves behind,
\* with the responses net.article, net.rss and net.rpc: the requests it
\* sent, in order, the responses it read and the parameters it fetched.
\* Nothing is sent when the article request cannot be created, the RSS GET
\* is sent only when the article page yields nothing, the RPC POST only when
\* the parameters were fetched.
DecodeTrace(u, net) ==
    IF DecodeRejects(u)
    THEN [reqs |-> << >>, article |-> NetErr, rss |-> NetErr, params |-> NoParams]
    ELSE IF NewRequestErr(TokenOfURL(u)) # ""
    THEN [reqs |-> << >>, article |-> NetErr, rss |-> NetErr,
          params |-> getDecodingParams(TokenOfURL(u), NetErr, NetErr)]
    ELSE LET params == getDecodingParams(TokenOfURL(u), net.article, net.rss)
             fallback == ~ArticleYields(net.article)
         IN [reqs |-> << Req("article", GetFailed(net.article)) >>
                      \o (IF fallback THEN << Req("rss", GetFailed(net.rss)) >> ELSE << >>)
                      \o (IF params.Status THEN << Req("rpc", PostFailed(net.rpc)) >>
                          ELSE << >>),
             article |-> net.article,
             rss |-> IF fallback THEN net.rss ELSE NetErr,
             params |-> params]

\* GNewsDecoder(sourceURL, nil, proxyURL), with any proxy argument and any
\* responses of the requests: with a proxy URL that is rejected, or a source
\* URL that Decode rejects, nothing is sent; otherwise it is one whole call
\* of Decode.
URLGNewsDecoder ==
    /\ uPc = "init"
    /\ uOp' = "GNewsDecoder"
    /\ \E proxy \in { "nil", "ok", "bad" } :
           IF proxy = "bad" \/ DecodeRejects(uURL)
           THEN /\ uRes' = GNewsDecoder(uURL, proxy, NetDown)
                /\ UNCHANGED << uReqs, uArticle, uRss, uParams >>
           ELSE \E article, rss \in PageResponses :
                \E rpc \in { RpcErr, RpcBody(200, "ok", Resolved(TokenOfURL(uURL))),
                                    RpcBody(500, "ok", Resolved(TokenOfURL(uURL))) } :
                \E t \in { DecodeTrace(uURL, [article |-> article, rss |-> rss,
                                                 rpc |-> rpc]) } :
                       /\ uRes' = GNewsDecoder(uURL, proxy, [article |-> article,
                                                            rss |-> rss, rpc |-> rpc])
                       /\ uReqs' = uReqs \o t.reqs
                       /\ uArticle' = t.article
                       /\ uRss' = t.rss
                       /\ uParams' = t.params
    /\ uPanic' = DecodePanics(uURL)
    /\ uPc' = "done"
    /\ UNCHANGED << uURL, uInterval, uSleeps,
                    binVars, scanVars, tokVars, v4Vars, concVars >>

\* newDecoderV1WithClient (GoogleDecoder.Decode, NewDecoderV1) step by step.
\* "Extract base64 string": a URL that is rejected returns at once (the
\* result does not depend on the network).
DecodeExtract ==
    /\ uPc = "init"
    /\ uOp' = "Decode"
    /\ uInterval' \in BOOLEAN
    /\ uPanic' = DecodePanics(uURL)
    /\ IF DecodeRejects(uURL)
       THEN uRes' = Decode(uURL, NetDown) /\ uPc' = "done"
       ELSE uRes' = uRes /\ uPc' = "article"
    /\ UNCHANGED << uURL, uParams, uArticle, uRss, uReqs, uSleeps,
                    binVars, scanVars, tokVars, v4Vars, concVars >>

\* Where getDecodingParams goes after the article-page GET: it returns the
\* parameters (the RPC follows), or falls back to the RSS URL.
AfterArticle(yields) == IF yields THEN "rpc" ELSE "rss"

\* getDecodingParams: "Try the articles URL first". When the request cannot
\* be created nothing is sent and newDecoderV1WithClient returns the failure.
DecodeArticle ==
    /\ uPc = "article"
    /\ IF NewRequestErr(TokenOfURL(uURL)) # ""
       THEN /\ uParams' = getDecodingParams(TokenOfURL(uURL), NetErr, NetErr)
            /\ uRes' = Result(FALSE, << >>, uParams'.Message)
            /\ uPc' = "done"
            /\ UNCHANGED << uArticle, uReqs >>
       ELSE \E article \in PageResponses :
                /\ uArticle' = article
                /\ uReqs' = Append(uReqs, Req("article", GetFailed(article)))
                /\ uParams' = IF ArticleYields(article)
                              THEN getDecodingParams(TokenOfURL(uURL), article, NetErr)
                              ELSE uParams
                /\ uPc' = AfterArticle(ArticleYields(article))
                /\ uRes' = uRes
    /\ UNCHANGED << uURL, uInterval, uOp, uRss, uSleeps, uPanic,
                    binVars, scanVars, tokVars, v4Vars, concVars >>

\* getDecodingParams: "Fallback to RSS URL"; newDecoderV1WithClient returns
\* the failure when params.Status is false.
DecodeRSS ==
    /\ uPc = "rss"
    /\ \E rss \in PageResponses :
           LET params == getDecodingParams(TokenOfURL(uURL), uArticle, rss)
           IN /\ uReqs' = Append(uReqs, Req("rss", GetFailed(rss)))
              /\ uRss' = rss
              /\ uParams' = params
              /\ IF ~params.Status
                 THEN uRes' = Result(FALSE, << >>, params.Message) /\ uPc' = "done"
                 ELSE uRes' = uRes /\ uPc' = "rpc"
    /\ UNCHANGED << uURL, uInterval, uOp, uArticle, uSleeps, uPanic,
                    binVars, scanVars, tokVars, v4Vars, concVars >>

\* "result := decodeURLWithParams(...)"
DecodeRPC ==
    /\ uPc = "rpc"
    /\ \E rpc \in RpcResponses(TokenOfURL(uURL)) :
           /\ uReqs' = Append(uReqs, Req("rpc", PostFailed(rpc)))
           /\ uRes' = decodeURLWithParams(rpc)
    /\ uPc' = "sleep"
    /\ UNCHANGED << uURL, uInterval, uOp, uParams, uArticle, uRss, uSleeps, uPanic,
                    binVars, scanVars, tokVars, v4Vars, concVars >>

\* "if interval != nil { time.Sleep(*interval) }; return result"
DecodeReturn ==
    /\ uPc = "sleep"
    /\ uSleeps' = IF uInterval THEN uSleeps + 1 ELSE uSleeps
    /\ uPc' = "done"
    /\ UNCHANGED << uURL, uInterval, uOp, uParams, uArticle, uRss, uRes, uReqs, uPanic,
                    binVars, scanVars, tokVars, v4Vars, concVars >>

\* ---------------------------------------------------------------- SpecBin

\* Longest body of a byte buffer drawn in SpecBin.
MaxBody == 3

\* The byte values of a buffer's body: small length bytes, a letter, and a
\* length byte of 0x80.
BinAlphabet == { 0, 1, 2, 97, 128 }

\* A buffer of the length byte 0x80 and n more bytes.
LongBuffer(n) == << 128 >> \o [i \in 1..n |-> 97]

\* What a buffer starts and ends with: nothing, the prefix or suffix, or a
\* part of it.
BinHeads == { << >>, Prefix, << 8, 19 >> }
BinTails == { << >>, Suffix, << 1, 0 >> }

\* The decoded byte sequences of SpecBin; the long ones have 0x80 + 1 bytes
\* or one less or more.
BinCatalog ==
    { h \o b \o t : h \in BinHeads, t \in BinTails,
                     b \in SeqsUpTo(BinAlphabet, MaxBody)
                            \cup { LongBuffer(n) : n \in 127..130 } }

BinIdle == binBuf = << >> /\ binPc = "done" /\ binOut = << >> /\ binPanic = FALSE

BinInit ==
    /\ binBuf \in BinCatalog
    /\ binPc = "init"
    /\ binOut = << >>
    /\ binPanic = FALSE

\* The three steps on decodedBytes: "Remove prefix", "Remove suffix",
\* "Extract URL based on length byte".
BinaryDecodeStep ==
    /\ binPc = "init"
    /\ binPanic' = BinaryPanics(binBuf)
    /\ binOut' = IF BinaryPanics(binBuf) THEN << >> ELSE BinaryDecode(binBuf)
    /\ binPc' = "done"
    /\ UNCHANGED << binBuf, urlVars, scanVars, tokVars, v4Vars, concVars >>

\* --------------------------------------------------------------- SpecScan

\* Most pieces a response text of SpecScan is made of.
MaxChunks == 5

\* The pieces of a response text: the result marker, the terminator, a
\* letter, and the beginning of the marker and of the terminator.
ScanChunks == { Header, Footer, << 117 >>, << 91 >>, << 92, 34 >> }

RECURSIVE Concat(_)
Concat(chunks) == IF chunks = << >> THEN << >> ELSE Head(chunks) \o Concat(Tail(chunks))

\* The response texts: every sequence of at most MaxChunks pieces.
ScanTexts == { Concat(chunks) : chunks \in SeqsUpTo(ScanChunks, MaxChunks) }

NoBatchResult == [Status |-> FALSE, URLs |-> << >>, err |-> ""]

ScanIdle ==
    /\ scanInput = << >> /\ scanText = << >> /\ scanURLs = << >>
    /\ scanPc = "done" /\ scanOut = NoBatchResult

\* "text := string(body)" of a response of status 200; "var urls []string".
ScanInit ==
    /\ scanInput \in ScanTexts
    /\ scanText = scanInput
    /\ scanURLs = << >>
    /\ scanPc = "loop"
    /\ scanOut = NoBatchResult

\* A scan that goes on right after the marker (RestAfterFooter's mutant).
RestAfterHeader(start) == start

\* "text = urlParts[1]": the scan goes on after the terminator.
RestAfterFooter(start) == AfterFirst(start, Footer)

\* Whether the loop body runs to its end: text holds the marker and a
\* terminator follows it.
ScanFinds(text) == Contains(text, Header) /\ Contains(AfterFirst(text, Header), Footer)

\* One full iteration of "for strings.Contains(text, header)".
ScanIterate ==
    /\ scanPc = "loop"
    /\ ScanFinds(scanText)
    /\ LET start == AfterFirst(scanText, Header)
       IN /\ scanURLs' = Append(scanURLs, BeforeFirst(start, Footer))
          /\ scanText' = RestAfterFooter(start)
    /\ UNCHANGED << scanInput, scanPc, scanOut, urlVars, binVars, tokVars, v4Vars, concVars >>

\* The loop ends (no marker is left) or breaks (no terminator follows the
\* marker): "return BatchDecodeResult{Status: true, URLs: urls}, nil".
ScanReturn ==
    /\ scanPc = "loop"
    /\ ~ScanFinds(scanText)
    /\ scanOut' = [Status |-> TRUE, URLs |-> scanURLs, err |-> ""]
    /\ scanPc' = "done"
    /\ UNCHANGED << scanInput, scanText, scanURLs, urlVars, binVars, tokVars, v4Vars,
                    concVars >>

\* --------------------------------------------------------- specifications

Init == ConcInit /\ TokIdle /\ V4Idle /\ URLIdle /\ BinIdle /\ ScanIdle

Next ==
    \/ \E i \in 1..Len(sourceURLs) : Spawn(i)
    \/ \E i \in 1..Len(sourceURLs) : Acquire(i)
    \/ \E i \in 1..Len(sourceURLs) : SelectCancelled(i)
    \/ \E i \in 1..Len(sourceURLs) : DecodeAndSend(i)
    \/ \E i \in 1..Len(sourceURLs) : Release(i)
    \/ \E i \in 1..Len(sourceURLs) : WgDone(i)
    \/ ConstructFails
    \/ SpawnDone
    \/ Cancel
    \/ CloseChan
    \/ Collect
    \/ Return

Spec == Init /\ [][Next]_vars

\* The steps of the program itself: every action but the caller's
\* cancellation of ctx.
Run ==
    \/ \E i \in 1..Len(sourceURLs) : Spawn(i)
    \/ \E i \in 1..Len(sourceURLs) : Acquire(i)
    \/ \E i \in 1..Len(sourceURLs) : SelectCancelled(i)
    \/ \E i \in 1..Len(sourceURLs) : DecodeAndSend(i)
    \/ \E i \in 1..Len(sourceURLs) : Release(i)
    \/ \E i \in 1..Len(sourceURLs) : WgDone(i)
    \/ ConstructFails
    \/ SpawnDone
    \/ CloseChan
    \/ Collect
    \/ Return

\* The fan-out under Go's scheduler: while some goroutine can take a step
\* (a Decode call that returns included), one is eventually taken. Nothing
\* is assumed of the caller: ctx may or may not ever be cancelled.
\* It starts from the calls whose URLs are all the reference URL of the news
\* host (a goroutine's steps do not depend on its URL, and Decode of this one
\* can both succeed and fail).
InitFair == Init /\ \A i \in 1..Len(sourceURLs) : sourceURLs[i].host = NewsHost

SpecFair == InitFair /\ [][Next]_vars /\ WF_vars(Run)

InitTok == TokInit /\ V4Idle /\ ConcIdle /\ URLIdle /\ BinIdle /\ ScanIdle

NextTok == CallDecoderV1 \/ CallDecoderV3

SpecTok == InitTok /\ [][NextTok]_vars

InitV4 == V4Init /\ TokIdle /\ ConcIdle /\ URLIdle /\ BinIdle /\ ScanIdle

NextV4 == V4LocalStep \/ V4LocalDone \/ V4BatchStep

SpecV4 == InitV4 /\ [][NextV4]_vars

InitURL == URLInit /\ BinIdle /\ TokIdle /\ V4Idle /\ ConcIdle /\ ScanIdle

NextURL ==
    \/ URLDecoderV3
    \/ URLDecoderV4
    \/ URLGetBase64Str
    \/ URLGNewsDecoder
    \/ DecodeExtract
    \/ DecodeArticle
    \/ DecodeRSS
    \/ DecodeRPC
    \/ DecodeReturn

SpecURL == InitURL /\ [][NextURL]_vars

InitBin == BinInit /\ URLIdle /\ TokIdle /\ V4Idle /\ ConcIdle /\ ScanIdle

NextBin == BinaryDecodeStep

SpecBin == InitBin /\ [][NextBin]_vars

InitScan == ScanInit /\ BinIdle /\ URLIdle /\ TokIdle /\ V4Idle /\ ConcIdle

NextScan == ScanIterate \/ ScanReturn

SpecScan == InitScan /\ [][NextScan]_vars

\* Every pipeline: one call of any of them.
InitAll == Init \/ InitTok \/ InitV4 \/ InitURL \/ InitBin

NextAll == Next \/ NextTok \/ NextV4 \/ NextURL \/ NextBin

SpecAll == InitAll /\ [][NextAll]_vars

\* ----------------------------------------------------------------- claims

Tasks == 1..Len(sourceURLs)

\* The goroutines that hold a permit: between "sem <- struct{}{}" and the
\* deferred "<-sem".
Holders == { i \in Tasks : gpc[i] \in {"decode", "release"} }

\* The results Decode can give for the i-th URL, and in the cancellable
\* variant the i-th goroutine's cancellation result.
OutcomesOf(i) ==
    { Decode(sourceURLs[i], net) : net \in ConcNets(sourceURLs[i]) }
    \cup (IF variant = "DecodeURLsWithContext" THEN {Cancelled} ELSE {})

\* C1: when DecodeURLs or DecodeURLsWithContext returns, the i-th element
\* of the returned sequence is the result the i-th goroutine produced for
\* the i-th input URL (a Decode result of that URL, or its own cancellation
\* result), whatever the order of completion and whatever its siblings gave.
C1_OrderPreserved ==
    mainPc = "returned" =>
        /\ Len(results) = Len(sourceURLs)
        /\ \A i \in Tasks :
               /\ produced[i] # << >>
               /\ results[i] = produced[i][1]
               /\ results[i] \in OutcomesOf(i)

\* C1's case: the second URL's successful result is already in its slot
\* while the first URL's failure, which completed later, is still in the
\* channel.
C1_Witness ==
    /\ Len(sourceURLs) = 2
    /\ mainPc = "collect"
    /\ Len(resultChan) = 1
    /\ resultChan[1].index = 1
    /\ ~resultChan[1].result.Status
    /\ produced[2] # << >>
    /\ results[2] = produced[2][1]
    /\ results[2].Status

\* The worker limit the claim names: the argument when positive, else 10.
WorkerLimit == IF limitArg > 0 THEN limitArg ELSE 10

\* C2: in every state of DecodeURLs and DecodeURLsWithContext the number of
\* goroutines holding a permit is at most the worker limit (the argument of
\* NewConcurrentDecoder when positive, 10 otherwise).
C2_BoundedConcurrency ==
    /\ Cardinality(Holders) <= WorkerLimit
    /\ sem <= WorkerLimit

\* C2's case: with a worker limit of 1, one goroutine runs Decode and
\* another waits for the permit.
C2_Witness ==
    /\ limitArg = 1
    /\ \E i, j \in Tasks : gpc[i] = "decode" /\ gpc[j] = "acquire"

\* C3: in DecodeURLsWithContext a goroutine that has not acquired a permit
\* when ctx is done never goes on to Decode.
C3_NoStartAfterCancel ==
    [][ \A i \in Tasks :
           (variant = "DecodeURLsWithContext" /\ ctxDone
                /\ gpc[i] \in {"unspawned", "acquire"})
           => gpc'[i] # "decode" ]_vars

\* C4: a DecodeResult with Status = true that DecoderV3 returns has a
\* non-empty DecodedURL, for every token content and RPC response.
C4_TrueHasURL ==
    (tokPc = "done" /\ tokV3.Status) => tokV3.DecodedURL # << >>

\* C5: every DecodeResult with Status = false in DecoderV4's output has a
\* non-empty Message, for every batch outcome.
C5_FalseHasMessage ==
    v4Pc = "done" =>
        \A i \in 1..Len(v4URLs) : ~v4Results[i].Status => v4Results[i].Message # ""

\* The input indices whose token DecoderV4 batches.
PendingSet == { i \in 1..Len(v4URLs) : V4Local(v4URLs[i]).pending }

\* The token of input index i.
TokenAt(i) == V4Local(v4URLs[i]).token

\* The batched call answered 200.
BatchOk == v4Resp.kind = "http" /\ v4Resp.status = 200

\* The URLs the response lists.
ReturnedURLs == ScanURLs(v4Resp.body)

\* C6: when the same reference token is at two input indices and the
\* batched call returns a URL for every submitted token, both indices get
\* Status = true with the token's resolved URL.
C6_DuplicateTokens ==
    (v4Pc = "done" /\ BatchOk
        /\ ReturnedURLs = [j \in 1..Len(batchIDs) |-> Resolved(batchIDs[j])]) =>
        \A i, j \in PendingSet :
            (i # j /\ TokenAt(i) = TokenAt(j)) =>
                /\ v4Results[i] = Result(TRUE, Resolved(TokenAt(i)), "")
                /\ v4Results[j] = Result(TRUE, Resolved(TokenAt(j)), "")

\* The batched call failed as a whole: a transport error, a status other
\* than 200, or a 200 response from which no result is parsed.
BatchFailed == v4Resp.kind = "neterr" \/ v4Resp.status # 200 \/ ReturnedURLs = << >>

\* C7: when the batched call fails as a whole, every pending input index
\* gets a Status = false result whose message carries the failure.
C7_BatchFailureReported ==
    (v4Pc = "done" /\ BatchFailed) =>
        \A i \in PendingSet : ~v4Results[i].Status /\ v4Results[i].Message # ""

\* The pending input indices in submission order.
RECURSIVE PendingFrom(_)
PendingFrom(i) ==
    IF i > Len(v4URLs) THEN << >>
    ELSE (IF V4Local(v4URLs[i]).pending THEN << i >> ELSE << >>) \o PendingFrom(i + 1)

PendingSeq == PendingFrom(1)

\* The pending tokens are pairwise distinct.
DistinctTokens == \A i, j \in PendingSet : i # j => TokenAt(i) # TokenAt(j)

\* C8: with k pairwise distinct pending tokens and a response listing m
\* URLs, the first min(m, k) pending indices in submission order hold
\* Status = true with the URL at the same position, the other pending
\* indices hold Status = false, and no other index is written.
C8_PartialBatch ==
    (v4Pc = "done" /\ BatchOk /\ DistinctTokens) =>
        /\ \A j \in 1..Len(PendingSeq) :
               IF j <= Len(ReturnedURLs)
               THEN v4Results[PendingSeq[j]] = Result(TRUE, ReturnedURLs[j], "")
               ELSE ~v4Results[PendingSeq[j]].Status
        /\ \A i \in 1..Len(v4URLs) : i \notin PendingSet => v4Results[i] = v4Local[i]

\* C8's case: three distinct tokens submitted, two URLs returned; the first
\* two indices succeed and the third is left failed.
C8_Witness ==
    /\ v4Pc = "done"
    /\ BatchOk
    /\ DistinctTokens
    /\ Len(PendingSeq) = 3
    /\ Len(ReturnedURLs) = 2
    /\ v4Results[1].Status
    /\ v4Results[2].Status
    /\ ~v4Results[3].Status

\* C9: a token built as prefix, length byte len(p), p, suffix decodes back
\* to exactly p (DecoderV1 on /articles/<token>).
C9_RoundTrip ==
    (tokKind = "framed" /\ tokPc # "init") => tokV1 = tokBytes

\* C10: for a token that is the unpadded URL-safe base64 encoding of a byte
\* sequence, whatever its length modulo 4, decoding with "==" appended
\* succeeds: DecoderV3 reports no base64 failure for it.
C10_PaddingTolerant ==
    (tokKind = "raw" /\ tokPc = "done") =>
        tokV3.Message # "failed to decode base64: illegal base64 data"

\* A URL that parses and whose host is not the news host.
Foreign(u) == u.parseOk /\ u.host # NewsHost

\* A failure result: Status false, a message, no decoded URL.
Rejection(r) == ~r.Status /\ r.Message # "" /\ r.DecodedURL = << >>

\* C11: for a URL that parses and whose host is not news.google.com,
\* DecoderV3, DecoderV4 (at every index), newDecoderV1WithClient (Decode,
\* NewDecoderV1), GNewsDecoder and DecodeURLs (at every index) return
\* Status false with a non-empty message and an empty DecodedURL; and no
\* source URL makes an index or slice expression of a pipeline go out of
\* range.
C11_ForeignHostRejected ==
    /\ ~uPanic
    /\ (uPc = "done" /\ uOp \in {"DecoderV3", "DecoderV4", "Decode", "GNewsDecoder"}
            /\ Foreign(uURL)) => Rejection(uRes)
    /\ v4Pc = "done" =>
           \A i \in 1..Len(v4URLs) : Foreign(v4URLs[i]) => Rejection(v4Results[i])
    /\ mainPc = "returned" =>
           \A i \in 1..Len(sourceURLs) : Foreign(sourceURLs[i]) => Rejection(results[i])

\* C11's case: DecoderV3 has rejected https://example.com/articles/<token>,
\* whose token is a reference the news host would resolve.
C11_Witness ==
    /\ uPc = "done"
    /\ uOp = "DecoderV3"
    /\ uURL = ForeignURL(RefTok)
    /\ uRes = Result(FALSE, << >>, "invalid Google News URL")

\* The non-empty segments of the path, from strings.Split.
NonEmptySegments(u) == SelectSeq(Split(u.path), LAMBDA p : p # << >>)

\* The URLs GetBase64Str is to accept.
Extractable(u) ==
    /\ u.parseOk
    /\ u.host = NewsHost
    /\ Len(NonEmptySegments(u)) >= 2
    /\ NonEmptySegments(u)[Len(NonEmptySegments(u)) - 1] \in { Articles, Read }

\* C12: GetBase64Str returns Status true exactly when the URL parses, its
\* host is news.google.com, its path has at least two non-empty segments
\* and the second-to-last of them is "articles" or "read"; the token it
\* returns is then the last non-empty segment, and on failure DecodedURL is
\* empty.
C12_GetBase64Str ==
    (uPc = "done" /\ uOp = "GetBase64Str") =>
        /\ uRes.Status <=> Extractable(uURL)
        /\ uRes.Status =>
               uRes.DecodedURL = NonEmptySegments(uURL)[Len(NonEmptySegments(uURL))]
        /\ ~uRes.Status => uRes.DecodedURL = << >>

\* C12's case: the path /articles/<token>/ (a trailing slash) gives the
\* token.
C12_Witness ==
    /\ uPc = "done"
    /\ uOp = "GetBase64Str"
    /\ uURL = MkURL(NewsHost, JoinPath(<< Articles, RefTok, << >> >>))
    /\ uRes = Result(TRUE, RefTok, "")

\* C13: DecoderV4 (GNewsDecoderBatch), DecodeURLs, DecodeURLsWithContext
\* and GNewsDecoderConcurrent (its failed construction included) return as
\* many results as there are input URLs, for every input sequence, the
\* empty one included, and every outcome of the network calls.
C13_ResultCount ==
    /\ v4Pc = "done" => Len(v4Results) = Len(v4URLs)
    /\ mainPc \in {"returned", "ctorfailed"} => Len(results) = Len(sourceURLs)

\* C13's case: DecoderV4 has returned three results for three URLs, two of
\* them references, after a response listing three URLs.
C13_Witness ==
    /\ v4Pc = "done"
    /\ Len(v4URLs) = 3
    /\ Len(batchIDs) = 2
    /\ Len(ReturnedURLs) = 3
    /\ Len(v4Results) = 3

\* The results Decode can give for the i-th URL.
DecodeOutcomes(i) == { Decode(sourceURLs[i], net) : net \in ConcNets(sourceURLs[i]) }

\* C14: in DecodeURLsWithContext a goroutine that holds its permit, ctx
\* cancelled or not, takes one step only: Decode completes and its result,
\* not the cancellation result, is sent; what a goroutine has sent is never
\* replaced; and when the call returns the slot of every goroutine that
\* sent a Decode result holds it. (A cancellation commutes with the steps
\* of a goroutine that holds a permit, so the permit holders of every state
\* include those that acquired before ctx was cancelled.)
C14_InFlightCompletes ==
    [][ variant = "DecodeURLsWithContext" =>
          \A i \in Tasks :
              /\ (gpc[i] = "decode" /\ gpc'[i] # "decode") =>
                     /\ gpc'[i] = "release"
                     /\ Len(produced'[i]) = 1
                     /\ produced'[i][1] \in DecodeOutcomes(i)
                     /\ produced'[i][1] # Cancelled
              /\ gpc[i] = "decode" => produced'[i] # << Cancelled >>
              /\ gpc[i] \in {"release", "wgdone", "exit"} => produced'[i] = produced[i]
              /\ (mainPc' = "returned" /\ produced'[i] # << Cancelled >>) =>
                     results'[i] = produced'[i][1] ]_vars

\* C14's case: ctx is cancelled, the call has returned, the first URL's
\* slot holds its Decode result and the second's the cancellation result.
C14_Witness ==
    /\ variant = "DecodeURLsWithContext"
    /\ ctxDone
    /\ mainPc = "returned"
    /\ Len(sourceURLs) = 2
    /\ produced[1] # << Cancelled >>
    /\ results[1] \in DecodeOutcomes(1)
    /\ results[2] = Cancelled

\* C15: when the response of the batched call lists the resolved URLs of
\* the submitted (pairwise distinct) tokens in any order, every pending
\* index gets the URL resolved for its own token.
C15_ReorderReconciled ==
    (v4Pc = "done" /\ BatchOk /\ DistinctTokens
        /\ Len(ReturnedURLs) = Len(batchIDs)
        /\ { ReturnedURLs[j] : j \in 1..Len(ReturnedURLs) }
             = { Resolved(batchIDs[j]) : j \in 1..Len(batchIDs) }) =>
        \A i \in PendingSet : v4Results[i] = Result(TRUE, Resolved(TokenAt(i)), "")

\* C16: with a non-nil interval, newDecoderV1WithClient sleeps at most once,
\* and a call that returns Status false has not slept.
C16_SleepOnlyOnSuccess ==
    (uOp = "Decode" /\ uInterval) =>
        /\ uSleeps <= 1
        /\ (uPc = "done" /\ ~uRes.Status) => uSleeps = 0

\* The envelopes the claim expects: the pending tokens in input order, the
\* j-th tagged j.
ExpectedEnvelopes ==
    LET pending == PendingSeq
    IN [j \in 1..Len(pending) |-> [id |-> TokenAt(pending[j]), tag |-> j]]

\* C17: one DecoderV4 call sends no request during its first loop and at
\* most one request in all; when it returns it has sent exactly one
\* request, carrying every pending token in input order with its 1-based
\* position, if some input is a reference, and none otherwise.
C17_OneBatchedRequest ==
    /\ Len(v4Reqs) <= 1
    /\ v4Pc # "done" => v4Reqs = << >>
    /\ v4Pc = "done" =>
           v4Reqs = IF ExpectedEnvelopes = << >> THEN << >> ELSE << ExpectedEnvelopes >>

\* C17's case: of three URLs the first and the third are references; the
\* one request carries their two tokens tagged 1 and 2.
C17_Witness ==
    /\ v4Pc = "done"
    /\ PendingSet = {1, 3}
    /\ Len(v4Reqs) = 1
    /\ Len(v4Reqs[1]) = 2
    /\ v4Reqs[1][1] = [id |-> TokenAt(1), tag |-> 1]
    /\ v4Reqs[1][2] = [id |-> TokenAt(3), tag |-> 2]

\* The buffer left after the prefix and the suffix are stripped.
Stripped == StripSuffix(StripPrefix(binBuf))

\* C18: on every byte buffer the binary decode makes no slice expression go
\* out of range, and a stripped buffer that is empty or shorter than L + 1
\* bytes, L its first byte, is returned as it is.
C18_ShortBufferUnchanged ==
    binPc = "done" =>
        /\ ~binPanic
        /\ (Len(Stripped) = 0 \/ Len(Stripped) < Stripped[1] + 1) => binOut = Stripped

\* C18's case: after the prefix is stripped the buffer starts with the
\* length byte 0x80 and has fewer than 0x81 bytes; it is returned unchanged.
C18_Witness ==
    /\ binPc = "done"
    /\ HasPrefix(binBuf, Prefix)
    /\ Len(Stripped) > 1
    /\ Stripped[1] = 128
    /\ Len(Stripped) < 129
    /\ binOut = Stripped

\* C19: when DecoderV4 returns, every index that its first loop settled
\* holds the result the first loop gave it, whatever the batched call
\* returned.
C19_LocalResultsKept ==
    v4Pc = "done" =>
        \A i \in 1..Len(v4URLs) :
            LET l == V4Local(v4URLs[i])
            IN ~l.pending => v4Results[i] = l.result

\* C19's case: the same reference at the first and third index, a URL
\* decoded locally at the second, and a response listing three URLs.
C19_Witness ==
    /\ v4Pc = "done"
    /\ PendingSet = {1, 3}
    /\ TokenAt(1) = TokenAt(3)
    /\ Len(ReturnedURLs) = 3
    /\ v4Results[2].Status
    /\ v4Results[2] = V4Local(v4URLs[2]).result

\* A call of newDecoderV1WithClient: Decode step by step, or as one whole
\* call through GNewsDecoder.
ViaDecode == uOp \in { "Decode", "GNewsDecoder" }

\* The endpoints of the requests sent so far, in order.
Endpoints == [k \in 1..Len(uReqs) |-> uReqs[k].ep]

\* A URL that token extraction rejects, by strings.Split's segments.
Unextractable(u) ==
    \/ ~u.parseOk
    \/ u.host # NewsHost
    \/ Len(Split(u.path)) <= 1
    \/ Split(u.path)[Len(Split(u.path)) - 1] \notin { Articles, Read }

\* No endpoint is contacted twice, the RSS GET only follows the article-page
\* GET, the RPC POST only follows a param fetch that returned Status true,
\* and nothing is sent for a URL that token extraction rejects.
RequestsInOrder ==
    /\ Endpoints \in { << >>, << "article" >>, << "article", "rss" >>,
                        << "article", "rpc" >>, << "article", "rss", "rpc" >> }
    /\ (\E k \in 1..Len(uReqs) : uReqs[k].ep = "rpc") => uParams.Status
    /\ Unextractable(uURL) => uReqs = << >>

\* C20: within one call of newDecoderV1WithClient no endpoint is contacted
\* twice, the RPC POST is sent only after the param fetch returned Status
\* true, nothing is sent for a URL that token extraction rejects, and a
\* failed request ends the call with Status false. The failed request is
\* taken to be the RSS GET or the RPC POST: a failed article-page GET is
\* followed by the one RSS GET, the fallback of the fetch-params step, and
\* is not held against the call. Violated: an RPC POST answered with status
\* 500 and a well-formed body ends the call with Status true.
C20_NoRetry ==
    ViaDecode =>
        /\ RequestsInOrder
        /\ (uPc = "done" /\ \E k \in 1..Len(uReqs) :
                                uReqs[k].failed /\ uReqs[k].ep \in {"rss", "rpc"})
               => ~uRes.Status
        /\ (Len(uReqs) >= 2 /\ uReqs[1].failed) => uReqs[2].ep = "rss"

\* ------------------------------------------------------------------- C21

\* The attribute values a page of PageResponses carries, told from the page
\* itself and not by extractDataAttributes: only the two full pages carry
\* both (an attribute written with no value carries none).
PageAttrs(body) ==
    IF body = PageBoth THEN [both |-> TRUE, sg |-> << 83, 103 >>, ts |-> << 49, 55 >>]
    ELSE IF body = PageBothB THEN [both |-> TRUE, sg |-> << 83, 104 >>, ts |-> << 49, 56 >>]
    ELSE [both |-> FALSE, sg |-> << >>, ts |-> << >>]

\* A response of status 200 with both attributes present.
HasBoth(resp) == resp.kind = "http" /\ resp.status = 200 /\ PageAttrs(resp.body).both

\* The number of GETs of the RSS URL that were sent.
RssSent == Cardinality({ k \in 1..Len(uReqs) : uReqs[k].ep = "rss" })

\* getDecodingParams has returned within a call of newDecoderV1WithClient.
ParamsReturned ==
    /\ ViaDecode
    /\ uPc \in { "rpc", "sleep" } \/ (uPc = "done" /\ uParams # NoParams)

\* The tokens of URLCatalog from which no request URL can be made, told from
\* the catalog: a '%' that begins no escape, and a control character.
Unrequestable(token) == token \in { BadEscapeTok, CtlTok }

\* What C21 says of a call in which the article-page GET was sent (or is
\* taken to have been sent): the RSS GET is sent exactly when the article
\* page did not return status 200 with both attributes (once, and only after
\* that GET); Status is true exactly when the article page, or else the RSS
\* page, returned status 200 with both attributes, with the signature and
\* the timestamp of that same response and the token given; otherwise Status
\* is false with a non-empty message.
FallbackRule ==
    /\ RssSent = (IF HasBoth(uArticle) THEN 0 ELSE 1)
    /\ uParams.Status <=> (HasBoth(uArticle) \/ HasBoth(uRss))
    /\ uParams.Status =>
          LET from == IF HasBoth(uArticle) THEN uArticle ELSE uRss
          IN /\ uParams.Signature = PageAttrs(from.body).sg
             /\ uParams.Timestamp = PageAttrs(from.body).ts
             /\ uParams.Base64Str = TokenOfURL(uURL)
    /\ ~uParams.Status => uParams.Message # ""

\* C21, as amended: when a request URL can be made from the token,
\* getDecodingParams sends the article-page GET and then the RSS GET exactly
\* when the article page did not return status 200 with both attributes; it
\* returns Status true exactly when one of the two returned status 200 with
\* both attributes, with the signature and timestamp of that response, and
\* otherwise Status false with a non-empty message. When no request URL can
\* be made from the token it sends neither GET and returns Status false with
\* a non-empty message.
C21_ParamsFallback ==
    /\ (uOp = "Decode" /\ uPc = "rss") => (~HasBoth(uArticle) /\ RssSent = 0)
    /\ ParamsReturned =>
          IF Unrequestable(TokenOfURL(uURL))
          THEN uReqs = << >> /\ ~uParams.Status /\ uParams.Message # ""
          ELSE /\ uReqs # << >> /\ uReqs[1].ep = "article"
               /\ FallbackRule

\* C21 as stated: whenever getDecodingParams has returned, the RSS GET was
\* sent exactly when the article-page GET did not yield status 200 with both
\* attributes, and the rest of the rule holds.
C21_FallbackAlways == ParamsReturned => FallbackRule

\* The article page has only the signature and the RSS page has both: the
\* parameters are those of the RSS page.
C21_Witness ==
    /\ uOp = "Decode" /\ uPc = "rpc"
    /\ uArticle = Http(200, PageSgOnly) /\ uRss = Http(200, PageBothB)
    /\ RssSent = 1
    /\ uParams.Status /\ uParams.Signature = << 83, 104 >>

\* ------------------------------------------------------------------- C22

\* Every spawned goroutine has handed over exactly one result and has ended,
\* the channel is drained, and in DecodeURLsWithContext no slot still holds
\* the placeholder.
AllDelivered ==
    /\ resultChan = << >>
    /\ \A i \in Tasks :
          /\ gpc[i] = "exit"
          /\ Len(produced[i]) = 1
          /\ variant = "DecodeURLsWithContext" => results[i] # NotProcessed

\* C22: DecodeURLs and DecodeURLsWithContext never deadlock: for every input
\* length (zero included), every worker limit and every interleaving, with
\* every Decode call returning, the call eventually returns, and when it has
\* returned every spawned goroutine has delivered exactly one result and, in
\* the cancellable variant, no slot holds "not processed".
C22_NoDeadlock ==
    /\ [](mainPc = "returned" => AllDelivered)
    /\ variant \in {"DecodeURLs", "DecodeURLsWithContext"} => <>(mainPc = "returned")

\* A cancelled call of two URLs under a limit of one worker has returned.
C22_Witness ==
    /\ variant = "DecodeURLsWithContext" /\ ctxDone
    /\ limitArg = 1 /\ Len(sourceURLs) = 2
    /\ mainPc = "returned"
    /\ \A i \in Tasks : Len(produced[i]) = 1 /\ results[i] # NotProcessed

\* ------------------------------------------------------------------- C23

\* The goroutines that have sent to sem and not yet received from it.
Unreleased == { i \in Tasks : acquired[i] > released[i] }

\* C23: a goroutine acquires a permit at most once and releases it exactly
\* once: after it has handed its Decode result over (Status true or false)
\* and before it signals completion with wg.Done(); a goroutine that yields
\* "context cancelled" neither acquires nor releases; the number of permits
\* held is always the number of goroutines between acquisition and release,
\* and it is zero when the call returns.
C23_PermitAccounting ==
    /\ \A i \in Tasks :
          /\ acquired[i] <= 1
          /\ released[i] <= acquired[i]
          /\ released[i] = 1 => Len(produced[i]) = 1
          /\ gpc[i] = "exit" => released[i] = acquired[i]
          /\ produced[i] = << Cancelled >> => acquired[i] = 0 /\ released[i] = 0
          /\ (produced[i] # << >> /\ produced[i] # << Cancelled >>) => acquired[i] = 1
    /\ Unreleased = Holders
    /\ sem = Cardinality(Unreleased)
    /\ mainPc = "returned" => (sem = 0 /\ Unreleased = {})

\* A call has returned in which the first goroutine was cancelled and the
\* second released the permit it held for a Decode that failed.
C23_Witness ==
    /\ mainPc = "returned" /\ Len(sourceURLs) = 2
    /\ produced[1] = << Cancelled >> /\ acquired[1] = 0
    /\ acquired[2] = 1 /\ released[2] = 1 /\ ~produced[2][1].Status
    /\ sem = 0

\* ------------------------------------------------------------------- C24

\* The URLs of a text told by positions, from position k on: the leftmost
\* marker at or after k, the leftmost terminator that begins after that
\* marker's end, what lies between them, and so on after that terminator;
\* nothing more once a marker has no terminator after it.
RECURSIVE MarkedFrom(_, _)
MarkedFrom(text, k) ==
    LET h == IndexFrom(text, Header, k)
    IN IF h = 0 THEN << >>
       ELSE LET f == IndexFrom(text, Footer, h + Len(Header))
            IN IF f = 0 THEN << >>
               ELSE << SubSeq(text, h + Len(Header), f - 1) >>
                    \o MarkedFrom(text, f + Len(Footer))

\* What the scan has done so far: the tail is a suffix of the input that
\* lost at least a marker and a terminator for every URL collected, and the
\* URLs are the first ones of the text, in order.
ScanSound ==
    /\ Len(scanText) + Len(scanURLs) * (Len(Header) + Len(Footer)) <= Len(scanInput)
    /\ HasSuffix(scanInput, scanText)
    /\ Len(scanURLs) <= Len(MarkedFrom(scanInput, 1))
    /\ scanURLs = SubSeq(MarkedFrom(scanInput, 1), 1, Len(scanURLs))
    /\ scanPc = "done" =>
          /\ scanOut = [Status |-> TRUE, URLs |-> MarkedFrom(scanInput, 1), err |-> ""]
          /\ scanOut.URLs = ScanURLs(scanInput)
          /\ scanOut = [k \in {"Status", "URLs", "err"} |->
                          fetchDecodedBatchExecuteMultiple(<< >>, Http(200, scanInput))[k]]

\* C24: the marker scan terminates for every response text: every iteration
\* strictly shortens the remaining tail, and no state is left without a next
\* step but the returned one. It returns, in order of appearance, one URL
\* for each occurrence of the marker, in what the scan has not yet consumed,
\* that a terminator follows; it stops at the first marker with no
\* terminator after it and still reports Status true with the URLs
\* collected so far (possibly none).
C24_MarkerScan ==
    /\ []ScanSound
    /\ [](scanPc = "loop" => ENABLED NextScan)
    /\ [][Len(scanURLs') > Len(scanURLs) => Len(scanText') < Len(scanText)]_vars

\* One URL was collected and the scan stopped at a second marker that no
\* terminator follows.
C24_Witness ==
    /\ scanPc = "done"
    /\ scanOut.Status /\ scanOut.URLs = << << 117 >> >>
    /\ Contains(scanText, Header)

\* ------------------------------------------------------------------- C25

\* Whether Decode's own extraction accepted the URL: it went on to
\* getDecodingParams.
DecodeAccepted == uPc # "done" \/ uParams # NoParams

\* C25: the extraction inlined in Decode (NewDecoderV1) accepts exactly the
\* URLs that GetBase64Str accepts and extracts the same token, for every
\* URL, those with a trailing slash or an empty path segment included.
C25_SameExtraction ==
    uOp = "Decode" =>
        LET g == GetBase64Str(uURL)
        IN /\ DecodeAccepted <=> g.Status
           /\ uParams.Status => uParams.Base64Str = g.DecodedURL

====
